---- MODULE Spec2Model ----
(***************************************************************************)
(* A model of the tile-map editor core: the layered sparse tile grid, the  *)
(* history stacks (saveCheckpoint / performUndo / performRedo), painting,  *)
(* flood fill and the editor's mouse and keyboard handlers.                *)
(*                                                                         *)
(* Conventions:                                                            *)
(*  - a coordinate key "x,y" is the pair <<x, y>>: the template string     *)
(*    `${x},${y}` and key.split(",").map(Number) are mutually inverse on   *)
(*    integers, so the pair is the key;                                    *)
(*  - a sparse Record<string, TileData> is a function whose DOMAIN is the  *)
(*    set of keys present;                                                 *)
(*  - layer snapshots are JavaScript objects: `store` maps an address to   *)
(*    the Layer[] value held there, and layers, past and future hold       *)
(*    addresses.  Addresses no longer referred to are collected.           *)
(***************************************************************************)
EXTENDS Integers, Sequences, FiniteSets, TLC

VARIABLES
    store,              \* address -> Layer[] value (the JavaScript heap of layer arrays)
    layers,             \* address of the current Layer[] (useImmer state)
    past,               \* historyPast.current : sequence of addresses, top last
    future,             \* historyFuture.current : sequence of addresses, top last
    mapSize,            \* [width, height]
    activeLayerIndex,
    currentTool,
    isFlipped,
    paletteSelection,   \* SelectionRect on the sprite sheet
    customBrush,        \* CustomBrush or Null
    selection,          \* SelectionRect on the map or Null
    clipboard,          \* [tiles |-> sparse tile mapping] or Null
    isMouseDown,
    isPanning,
    isSpacePressed,
    lastPaintedTiles,   \* set of keys stamped during the current drag
    selectionStart,
    obs,                \* observer: what the last handler did and the state it started from
    stroke,             \* observer: the mouse stroke in progress (or the last one): the
                        \* checkpoints it pushed, its setLayers calls, the cells it
                        \* stamped, whether it changed the layers
    steps,              \* number of handler invocations so far
    stepLimit,          \* the number of handler invocations explored
    activeTileGroup,    \* the TileGroup in use or Null
    expansion,          \* observer: the last generatePlatformData call, [width, out], or Null
    level,              \* observer: the last generateProceduralLevel call, its arguments,
                        \* draws, working state and result, or Null
    fillRun,            \* a floodFill recipe in progress, iteration by iteration, or Null
    tileGroups,         \* the TileGroup registry, in insertion order
    showGenModal,       \* whether the generation dialog is open
    selectedIds         \* the dialog's selected group ids, in insertion order

vars == << store, layers, past, future, mapSize, activeLayerIndex, currentTool,
           isFlipped, paletteSelection, customBrush, selection, clipboard,
           isMouseDown, isPanning, isSpacePressed, lastPaintedTiles,
           selectionStart, obs, stroke, steps, stepLimit, activeTileGroup, expansion, level,
           fillRun, tileGroups, showGenModal, selectedIds >>

\* What no handler of the editor modelled here assigns.
fixed ==
    << stepLimit, activeTileGroup, expansion, level, fillRun, tileGroups, showGenModal,
       selectedIds >>

(***************************************************************************)
(* Bounds of the model and constants of the program.                       *)
(***************************************************************************)
MaxHistory == 50

tilesPerRow == 8

MapWidth == 2

MapHeight == 1

FillWidth == 2

FillHeight == 2

MaxSteps == 4

MaxHistorySteps == 3

MaxFills == 2

\* null for a variable that otherwise holds a record
Null == [isNull |-> TRUE]

\* An optional scalar (number | null, boolean | undefined): << >> or << v >>.
None == << >>

Some(v) == << v >>

\* Tile ids used by the inputs: 4 and 5 are neighbours on the sprite sheet,
\* 9 lies on the next row (tilesPerRow = 8).
TileA == [tileId |-> 4, flipX |-> FALSE]

TileAFlipped == [tileId |-> 4, flipX |-> TRUE]

(***************************************************************************)
(* Sparse mappings.                                                         *)
(***************************************************************************)
EmptyData == [k \in {} |-> TileA]

Put(d, k, t) == [c \in (DOMAIN d) \cup {k} |-> IF c = k THEN t ELSE d[c]]

Del(d, k) == [c \in (DOMAIN d) \ {k} |-> d[c]]

\* activeData[key]?.tileId
TileIdAt(d, k) == IF k \in DOMAIN d THEN Some(d[k].tileId) ELSE None

Last(s) == s[Len(s)]

Front(s) == SubSeq(s, 1, Len(s) - 1)

\* The element of a one-element set; { body : v \in {e} } computes e once and
\* names its value v in body.
TheOne(S) == CHOOSE v \in S : TRUE

\* An enumeration of a finite set, in the insertion order of Object.entries;
\* the handlers that iterate write distinct keys, so the order does not matter.
RECURSIVE SetToSeq(_)
SetToSeq(S) ==
    IF S = {} THEN << >>
    ELSE LET x == CHOOSE y \in S : TRUE IN << x >> \o SetToSeq(S \ {x})

(***************************************************************************)
(* Layers.  Layer indices are 0-based as in the source; TLA+ sequences are *)
(* 1-based, so layer i of the source is element i + 1.                     *)
(***************************************************************************)
INITIAL_LAYERS ==
    << [id |-> "ground", name |-> "Ground", visible |-> TRUE, opacity |-> 100, data |-> EmptyData],
       [id |-> "decor", name |-> "Decoration", visible |-> TRUE, opacity |-> 100, data |-> EmptyData],
       [id |-> "collision", name |-> "Collision", visible |-> TRUE, opacity |-> 50, data |-> EmptyData] >>

ActiveData(L, idx) == L[idx + 1].data

WithActiveData(L, idx, d) == [L EXCEPT ![idx + 1].data = d]

(***************************************************************************)
(* The heap of Layer[] values.                                             *)
(***************************************************************************)
Fresh(st) == CHOOSE r \in 1..(Cardinality(DOMAIN st) + 1) : r \notin DOMAIN st

\* A buggy variant: the recipe's writes land in the current object itself.
SetLayersInPlace(st, lyr, v) ==
    [store |-> [st EXCEPT ![lyr] = v], layers |-> lyr]

\* setLayers(draft => ...): immer's produce leaves the base object untouched and
\* returns a new object holding the recipe's result (the base itself when the
\* recipe changed nothing).
SetLayers(st, lyr, v) ==
    IF v = st[lyr] THEN [store |-> st, layers |-> lyr]
    ELSE LET r == Fresh(st) IN
         [store |-> [a \in (DOMAIN st) \cup {r} |-> IF a = r THEN v ELSE st[a]],
          layers |-> r]

Range(s) == {s[i] : i \in 1..Len(s)}

\* Addresses nothing refers to any more are dropped.
Collect(st, lyr, p, f) ==
    [a \in (Range(p) \cup Range(f) \cup {lyr}) |-> st[a]]

(***************************************************************************)
(* History Manager: operators on h = [layers, past, future] (addresses).   *)
(***************************************************************************)
\* A buggy variant: no cap on the past stack.
saveCheckpointNoCap(h) ==
    [h EXCEPT !.past = Append(h.past, h.layers), !.future = << >>]

\* A buggy variant: on overflow the newest entry is dropped instead of the oldest.
saveCheckpointDropNewest(h) ==
    LET p == Append(h.past, h.layers) IN
    [h EXCEPT !.past = IF Len(p) > MaxHistory THEN Front(p) ELSE p,
              !.future = << >>]

\* A buggy variant: the redo stack survives a checkpoint.
saveCheckpointKeepFuture(h) ==
    LET p == Append(h.past, h.layers) IN
    [h EXCEPT !.past = IF Len(p) > MaxHistory THEN Tail(p) ELSE p]

saveCheckpoint(h) ==
    LET p == Append(h.past, h.layers) IN
    [h EXCEPT !.past = IF Len(p) > MaxHistory THEN Tail(p) ELSE p,
              !.future = << >>]

\* A buggy variant: the state being left is not kept for redo.
performUndoForgetful(h) ==
    IF Len(h.past) = 0 THEN h
    ELSE [layers |-> Last(h.past), past |-> Front(h.past), future |-> h.future]

performUndo(h) ==
    IF Len(h.past) = 0 THEN h
    ELSE [layers |-> Last(h.past),
          past |-> Front(h.past),
          future |-> Append(h.future, h.layers)]

\* A variant that leaves the restored snapshot on the future stack.
performRedoKeepFuture(h) ==
    IF Len(h.future) = 0 THEN h
    ELSE [layers |-> Last(h.future),
          past |-> Append(h.past, h.layers),
          future |-> h.future]

\* A buggy variant: redo pushes the restored state instead of the state left.
performRedoPushNext(h) ==
    IF Len(h.future) = 0 THEN h
    ELSE [layers |-> Last(h.future),
          past |-> Append(h.past, Last(h.future)),
          future |-> Front(h.future)]

performRedo(h) ==
    IF Len(h.future) = 0 THEN h
    ELSE [layers |-> Last(h.future),
          past |-> Append(h.past, h.layers),
          future |-> Front(h.future)]

(***************************************************************************)
(* Paint & Flood-Fill Engine: operators on a Layer[] value L.               *)
(***************************************************************************)
gridSize == 32

\* Math.floor(a / b) for b > 0
FloorDiv(a, b) == a \div b

\* paintTile(gridX, gridY, tileId, flipX): pixel coordinates in, one cell written
\* (or deleted when tileId is null) in the active layer.
paintTile(L, idx, gridX, gridY, tileId, flipX, flipped) ==
    LET gx == FloorDiv(gridX, gridSize)
        gy == FloorDiv(gridY, gridSize)
        key == << gx, gy >>
        activeData == ActiveData(L, idx)
    IN  IF tileId = None
        THEN WithActiveData(L, idx, Del(activeData, key))
        ELSE WithActiveData(L, idx,
                 Put(activeData, key,
                     [tileId |-> tileId[1],
                      flipX |-> IF flipX # None THEN flipX[1] ELSE flipped]))

InBounds(size, cx, cy) ==
    ~(cx < 0 \/ cx >= size.width \/ cy < 0 \/ cy >= size.height)

\* A buggy variant of the loop: the neighbour above is never pushed.
RECURSIVE FillLoopThreeWay(_, _, _, _, _, _, _)
FillLoopThreeWay(activeData, visited, queue, startTileId, fillTileId, flipped, size) ==
    IF Len(queue) = 0 THEN activeData
    ELSE
      LET c == Last(queue)
          rest == Front(queue)
          key == << c[1], c[2] >>
      IN  IF key \in visited \/ ~InBounds(size, c[1], c[2])
             \/ TileIdAt(activeData, key) # startTileId
            THEN FillLoopThreeWay(activeData, visited, rest, startTileId, fillTileId, flipped, size)
          ELSE FillLoopThreeWay(Put(activeData, key, [tileId |-> fillTileId, flipX |-> flipped]),
                        visited \cup {key},
                        rest \o << << c[1] + 1, c[2] >>, << c[1] - 1, c[2] >>,
                                   << c[1], c[2] + 1 >> >>,
                        startTileId, fillTileId, flipped, size)

\* The while loop of floodFill: queue is used as a stack (push at the end, pop
\* from the end).
RECURSIVE FillLoop(_, _, _, _, _, _, _)
FillLoop(activeData, visited, queue, startTileId, fillTileId, flipped, size) ==
    IF Len(queue) = 0 THEN activeData
    ELSE
      LET c == Last(queue)
          rest == Front(queue)
          cx == c[1]
          cy == c[2]
          key == << cx, cy >>
      IN  IF key \in visited
            THEN FillLoop(activeData, visited, rest, startTileId, fillTileId, flipped, size)
          ELSE IF ~InBounds(size, cx, cy)
            THEN FillLoop(activeData, visited, rest, startTileId, fillTileId, flipped, size)
          ELSE IF TileIdAt(activeData, key) # startTileId
            THEN FillLoop(activeData, visited, rest, startTileId, fillTileId, flipped, size)
          ELSE FillLoop(Put(activeData, key, [tileId |-> fillTileId, flipX |-> flipped]),
                        visited \cup {key},
                        rest \o << << cx + 1, cy >>, << cx - 1, cy >>,
                                   << cx, cy + 1 >>, << cx, cy - 1 >> >>,
                        startTileId, fillTileId, flipped, size)

\* A buggy variant: no early return when the start cell already holds the fill id.
floodFillNoGuard(L, idx, startGridX, startGridY, fillTileId, flipped, size) ==
    LET activeData == ActiveData(L, idx)
        startTileId == TileIdAt(activeData, << startGridX, startGridY >>)
    IN  WithActiveData(L, idx,
            FillLoop(activeData, {}, << << startGridX, startGridY >> >>,
                     startTileId, fillTileId, flipped, size))

floodFill(L, idx, startGridX, startGridY, fillTileId, flipped, size) ==
    LET activeData == ActiveData(L, idx)
        startTileId == TileIdAt(activeData, << startGridX, startGridY >>)
    IN  IF startTileId = Some(fillTileId) THEN L
        ELSE WithActiveData(L, idx,
                 FillLoop(activeData, {}, << << startGridX, startGridY >> >>,
                          startTileId, fillTileId, flipped, size))

\* A buggy variant of the flip composition: the global flip overrides the tile's own.
CombinedFlipOverride(sourceFlipX, flipped) == flipped

\* tileData.flipX !== isFlipped
CombinedFlip(sourceFlipX, flipped) == sourceFlipX # flipped

\* isFlipped ? (customBrush.width - 1 - dx) : dx
FinalDx(brush, dx, flipped) == IF flipped THEN brush.width - 1 - dx ELSE dx

\* The forEach over Object.entries(customBrush.data) in handleMapInteraction.
RECURSIVE StampEntries(_, _, _, _, _, _, _, _)
StampEntries(L, idx, brush, entries, gridX, gridY, flipped, size) ==
    IF Len(entries) = 0 THEN L
    ELSE
      LET key == Head(entries)
          tileData == brush.data[key]
          dx == key[1]
          dy == key[2]
          finalDx == FinalDx(brush, dx, flipped)
          targetX == gridX + finalDx * gridSize
          targetY == gridY + dy * gridSize
          pixelWidth == size.width * gridSize
          pixelHeight == size.height * gridSize
          L1 == IF targetX >= pixelWidth \/ targetY >= pixelHeight THEN L
                ELSE paintTile(L, idx, targetX, targetY, Some(tileData.tileId),
                               Some(CombinedFlip(tileData.flipX, flipped)), flipped)
      IN  StampEntries(L1, idx, brush, Tail(entries), gridX, gridY, flipped, size)

StampBrush(L, idx, brush, gridX, gridY, flipped, size) ==
    StampEntries(L, idx, brush, SetToSeq(DOMAIN brush.data), gridX, gridY, flipped, size)

(***************************************************************************)
(* sampleArea: capture a custom brush from the map.                        *)
(***************************************************************************)
MinOf(S) == CHOOSE m \in S : \A n \in S : m <= n

MaxOf(S) == CHOOSE m \in S : \A n \in S : m >= n

\* The tile sampled at a map key: the active layer's, else the topmost visible
\* layer's, else Null.
SampledTile(L, idx, key) ==
    IF key \in DOMAIN ActiveData(L, idx) THEN ActiveData(L, idx)[key]
    ELSE LET cands == {i \in 1..Len(L) : L[i].visible /\ key \in DOMAIN L[i].data}
         IN  IF cands = {} THEN Null ELSE L[MaxOf(cands)].data[key]

\* The result of sampleArea(area): [found, brush, palette]; the caller sets
\* customBrush, currentTool = "brush", selection = null and paletteSelection.
sampleArea(L, idx, area) ==
    LET offs == {d \in (0..(area.w - 1)) \X (0..(area.h - 1)) :
                    SampledTile(L, idx, << area.x + d[1], area.y + d[2] >>) # Null}
    IN  IF offs = {} THEN [found |-> FALSE]
        ELSE
          LET minX == MinOf({d[1] : d \in offs})
              minY == MinOf({d[2] : d \in offs})
              keys == {<< d[1] - minX, d[2] - minY >> : d \in offs}
              trimmedData == [k \in keys |->
                                 SampledTile(L, idx, << area.x + k[1] + minX,
                                                        area.y + k[2] + minY >>)]
              maxWidth == MaxOf({k[1] : k \in keys} \cup {0})
              maxHeight == MaxOf({k[2] : k \in keys} \cup {0})
              \* Object.values(trimmedData)[0]: the first key inserted, rows first
              firstRow == MinOf({k[2] : k \in keys})
              firstKey == << MinOf({k[1] : k \in {q \in keys : q[2] = firstRow}}), firstRow >>
              firstId == trimmedData[firstKey].tileId
              startSrcX == firstId % tilesPerRow
              startSrcY == FloorDiv(firstId, tilesPerRow)
              isContiguous == \A k \in keys :
                  trimmedData[k].tileId = (startSrcY + k[2]) * tilesPerRow + (startSrcX + k[1])
          IN  [found |-> TRUE,
               brush |-> [width |-> maxWidth + 1, height |-> maxHeight + 1, data |-> trimmedData],
               palette |-> IF isContiguous
                           THEN [x |-> startSrcX, y |-> startSrcY, w |-> maxWidth + 1, h |-> maxHeight + 1]
                           ELSE [x |-> 0, y |-> 0, w |-> 0, h |-> 0]]

\* updatePaletteSelection(newSelection): the rectangular brush of a palette selection.
PaletteBrush(sel) ==
    [width |-> sel.w, height |-> sel.h,
     data |-> [k \in (0..(sel.w - 1)) \X (0..(sel.h - 1)) |->
                  [tileId |-> (sel.y + k[2]) * tilesPerRow + (sel.x + k[1]), flipX |-> FALSE]]]

(***************************************************************************)
(* The observers.                                                          *)
(***************************************************************************)
Deref(st, s) == [i \in 1..Len(s) |-> st[s[i]]]

\* The layer sequence and both stacks as values.
Snapshot == [layers |-> store[layers], past |-> Deref(store, past), future |-> Deref(store, future)]

Hist == [layers |-> layers, past |-> past, future |-> future]

\* What the observer records of a handler invocation:
\*   handler, input  the handler and its argument;
\*   ops             its calls of saveCheckpoint, setLayers, performUndo, performRedo, in order;
\*   pre             the layers and stacks (as values) it started from;
\*   before          the ops of the latest earlier handler that made any call;
\*   undoPre         the state before the performUndo that popped a snapshot, while no
\*                   other call has followed it;
\*   roundTrip       that state, once performRedo has directly followed that performUndo.
Observe(handler, input, ops) ==
    obs' = [handler |-> handler, input |-> input, ops |-> ops, pre |-> Snapshot,
            before |-> IF obs.ops # << >> THEN obs.ops ELSE obs.before,
            undoPre |-> IF ops = << "performUndo" >> /\ Len(past) > 0 THEN Snapshot
                        ELSE IF ops = << >> THEN obs.undoPre
                        ELSE Null,
            roundTrip |-> IF ops = << "performRedo" >> THEN obs.undoPre
                          ELSE IF ops = << >> THEN obs.roundTrip
                          ELSE Null]

InitObs ==
    [handler |-> "init", input |-> << >>, ops |-> << >>,
     pre |-> [layers |-> store[layers], past |-> Deref(store, past),
              future |-> Deref(store, future)],
     before |-> << >>, undoPre |-> Null, roundTrip |-> Null]

\* Install the outcome of a handler: h is the history after the handler's calls of
\* saveCheckpoint / performUndo / performRedo and Lnew the value its setLayers
\* calls leave (store[h.layers] itself when it made none).
Commit(h, Lnew) ==
    LET r == SetLayers(store, h.layers, Lnew) IN
    /\ layers' = r.layers
    /\ past' = h.past
    /\ future' = h.future
    /\ store' = Collect(r.store, r.layers, h.past, h.future)

(***************************************************************************)
(* generatePlatformData: the expansion of a TileGroup to a width.  The     *)
(* result is the sparse mapping it returns together with the columns of    *)
(* the group it read, in order.                                            *)
(***************************************************************************)
MaxColumnLength == 2

MaxMiddleColumns == 2

MaxGroupHeight == 3

MaxExpansionWidth == 4

MaxExpansions == 1

\* A column read: the field of the group and, for middle, the index read.
Read(field, index) == [field |-> field, index |-> index]

\* A variant of addColumn that drops what was emitted so far when the column
\* array is empty.
RECURSIVE addColumnClearing(_, _, _, _, _)
addColumnClearing(data, x, colTiles, h, y) ==
    IF y >= h THEN data
    ELSE IF Len(colTiles) = 0 THEN EmptyData
    ELSE addColumnClearing(Put(data, << x, y >>,
                               [tileId |-> colTiles[(y % Len(colTiles)) + 1], flipX |-> FALSE]),
                           x, colTiles, h, y + 1)

\* addColumn(x, colTiles): y % colTiles.length is NaN for an empty column and
\* colTiles[NaN] is undefined, so nothing is written.
RECURSIVE addColumn(_, _, _, _, _)
addColumn(data, x, colTiles, h, y) ==
    IF y >= h THEN data
    ELSE IF Len(colTiles) = 0 THEN addColumn(data, x, colTiles, h, y + 1)
    ELSE addColumn(Put(data, << x, y >>,
                       [tileId |-> colTiles[(y % Len(colTiles)) + 1], flipX |-> FALSE]),
                   x, colTiles, h, y + 1)

\* A variant that cycles the middle columns from x instead of x - 1.
middleColIndexFromX(x, n) == x % n

\* (x - 1) % group.middle.length
middleColIndex(x, n) == (x - 1) % n

\* A variant of the loop bound: x < width instead of x < width - 1.
MiddleLoopContinuesInclusive(x, width) == x < width

\* x < width - 1
MiddleLoopContinues(x, width) == x < width - 1

\* A variant of the middle loop without the fallback to single: an empty middle
\* list leaves the interior columns out.
RECURSIVE MiddleSectionsWithoutFallback(_, _, _, _, _)
MiddleSectionsWithoutFallback(acc, x, width, group, h) ==
    IF ~MiddleLoopContinues(x, width) \/ Len(group.middle) = 0 THEN acc
    ELSE LET i == middleColIndex(x, Len(group.middle))
         IN  MiddleSectionsWithoutFallback(
                 [data |-> addColumn(acc.data, x, group.middle[i + 1], h, 0),
                  reads |-> Append(acc.reads, Read("middle", i))],
                 x + 1, width, group, h)

\* for (let x = 1; x < width - 1; x++) { ... addColumn(x, middleCol) }
RECURSIVE MiddleSections(_, _, _, _, _)
MiddleSections(acc, x, width, group, h) ==
    IF ~MiddleLoopContinues(x, width) THEN acc
    ELSE IF Len(group.middle) > 0
      THEN LET i == middleColIndex(x, Len(group.middle))
           IN  MiddleSections([data |-> addColumn(acc.data, x, group.middle[i + 1], h, 0),
                               reads |-> Append(acc.reads, Read("middle", i))],
                              x + 1, width, group, h)
      ELSE MiddleSections([data |-> addColumn(acc.data, x, group.single, h, 0),
                           reads |-> Append(acc.reads, Read("single", 0))],
                          x + 1, width, group, h)

\* A variant without the width === 1 case: the caps are used at every width.
generatePlatformDataCapsOnly(width, group) ==
    IF width <= 0 THEN [data |-> EmptyData, reads |-> << >>]
    ELSE
      LET h == IF group.height = 0 THEN 1 ELSE group.height
          l == [data |-> addColumn(EmptyData, 0, group.left, h, 0),
                reads |-> << Read("left", 0) >>]
          m == MiddleSections(l, 1, width, group, h)
      IN  [data |-> addColumn(m.data, width - 1, group.right, h, 0),
           reads |-> Append(m.reads, Read("right", 0))]

generatePlatformData(width, group) ==
    IF width <= 0 THEN [data |-> EmptyData, reads |-> << >>]
    ELSE
      LET h == IF group.height = 0 THEN 1 ELSE group.height
      IN  IF width = 1
          THEN [data |-> addColumn(EmptyData, 0, group.single, h, 0),
                reads |-> << Read("single", 0) >>]
          ELSE
            LET l == [data |-> addColumn(EmptyData, 0, group.left, h, 0),
                      reads |-> << Read("left", 0) >>]
                m == MiddleSections(l, 1, width, group, h)
            IN  [data |-> addColumn(m.data, width - 1, group.right, h, 0),
                 reads |-> Append(m.reads, Read("right", 0))]

(***************************************************************************)
(* handleMapInteraction(e): the tool applied at the pointer position.       *)
(* x, y are the map-space pixel coordinates the handler computes from the  *)
(* event (zoom and camera offset are the renderer's business).  The result *)
(* is the handler's effect on the values it touches; calls counts its      *)
(* setLayers calls.                                                        *)
(***************************************************************************)
handleMapInteraction(type, x, y, L, painted, mouseDown, selStart, sel) ==
    LET same == [L |-> L, painted |-> painted, selStart |-> selStart, sel |-> sel, calls |-> 0]
        pixelWidth == mapSize.width * gridSize
        pixelHeight == mapSize.height * gridSize
        gridX == FloorDiv(x, gridSize) * gridSize
        gridY == FloorDiv(y, gridSize) * gridSize
        gx == FloorDiv(x, gridSize)
        gy == FloorDiv(y, gridSize)
        tileKey == << gx, gy >>
    IN  IF isPanning THEN same
        ELSE IF x < 0 \/ y < 0 \/ x >= pixelWidth \/ y >= pixelHeight THEN same
        ELSE IF tileKey \in painted THEN same
        ELSE IF currentTool = "brush" THEN
            IF customBrush # Null
            THEN [same EXCEPT
                    !.L = StampBrush(L, activeLayerIndex, customBrush, gridX, gridY, isFlipped, mapSize),
                    !.painted = painted \cup {tileKey},
                    !.calls = Cardinality({k \in DOMAIN customBrush.data :
                                  ~(gridX + FinalDx(customBrush, k[1], isFlipped) * gridSize >= pixelWidth
                                    \/ gridY + k[2] * gridSize >= pixelHeight)})]
            ELSE [same EXCEPT !.painted = painted \cup {tileKey}]
        ELSE IF currentTool = "eraser" THEN
            [same EXCEPT !.L = paintTile(L, activeLayerIndex, gridX, gridY, None, None, isFlipped),
                         !.painted = painted \cup {tileKey},
                         !.calls = 1]
        ELSE IF currentTool = "fill" /\ type = "mousedown" THEN
            [same EXCEPT !.L = floodFill(L, activeLayerIndex, gx, gy,
                                         paletteSelection.y * tilesPerRow + paletteSelection.x,
                                         isFlipped, mapSize),
                         !.calls = 1]
        ELSE IF currentTool = "marquee" \/ currentTool = "eyedropper" THEN
            IF type = "mousedown"
            THEN [same EXCEPT !.selStart = [x |-> gx, y |-> gy],
                              !.sel = [x |-> gx, y |-> gy, w |-> 1, h |-> 1]]
            ELSE IF mouseDown /\ selStart # Null
            THEN LET minX == IF selStart.x < gx THEN selStart.x ELSE gx
                     minY == IF selStart.y < gy THEN selStart.y ELSE gy
                     w == (IF selStart.x < gx THEN gx - selStart.x ELSE selStart.x - gx) + 1
                     h == (IF selStart.y < gy THEN gy - selStart.y ELSE selStart.y - gy) + 1
                 IN  [same EXCEPT !.sel = [x |-> minX, y |-> minY, w |-> w, h |-> h]]
            ELSE same
        ELSE IF currentTool = "smartBrush" THEN
            IF type = "mousedown"
            THEN [same EXCEPT !.selStart = [x |-> gx, y |-> gy],
                              !.sel = [x |-> gx, y |-> gy, w |-> 1, h |-> 1]]
            ELSE IF mouseDown /\ selStart # Null
            THEN LET minX == IF selStart.x < gx THEN selStart.x ELSE gx
                     w == (IF selStart.x < gx THEN gx - selStart.x ELSE selStart.x - gx) + 1
                 IN  [same EXCEPT !.sel = [x |-> minX, y |-> selStart.y, w |-> w, h |-> 1]]
            ELSE same
        ELSE same

(***************************************************************************)
(* Inputs.                                                                 *)
(***************************************************************************)
\* Pointer positions: a point inside every column and row of the map, one to
\* the left of the map and one to its right.
PointerXs == {c * gridSize + 8 : c \in (0 - 1)..mapSize.width}

PointerYs == {r * gridSize + 8 : r \in 0..(mapSize.height - 1)}

Tools == {"brush", "eraser", "fill", "marquee", "eyedropper"}

\* Keyboard events: [key, ctrlKey (or metaKey), shiftKey].
Key(k, c, s) == [key |-> k, ctrlKey |-> c, shiftKey |-> s]

KeyDownEvents ==
    { Key("b", FALSE, FALSE), Key("e", FALSE, FALSE), Key("f", FALSE, FALSE),
      Key("x", FALSE, FALSE), Key("i", FALSE, FALSE), Key("Delete", FALSE, FALSE),
      Key(" ", FALSE, FALSE),
      Key("z", TRUE, FALSE), Key("z", TRUE, TRUE), Key("Z", TRUE, TRUE),
      Key("c", TRUE, FALSE), Key("v", TRUE, FALSE), Key("y", TRUE, FALSE) }

KeyUpEvents ==
    { Key(" ", FALSE, FALSE), Key("z", TRUE, FALSE), Key("Z", TRUE, TRUE),
      Key("y", TRUE, FALSE), Key("z", FALSE, FALSE) }

\* e.key.toLowerCase()
ToLowerCase(k) == IF k = "Z" THEN "z" ELSE k

PaletteSelections ==
    { [x |-> 4, y |-> 0, w |-> 1, h |-> 1],
      [x |-> 4, y |-> 0, w |-> 2, h |-> 1],
      [x |-> 1, y |-> 1, w |-> 1, h |-> 1] }

(***************************************************************************)
(* Mouse handlers of the map canvas.                                       *)
(***************************************************************************)
\* handleMapMouseDown (without Alt)
MouseDown(x, y) ==
    /\ steps < stepLimit
    /\ steps' = steps + 1
    /\ UNCHANGED fixed
    /\ IF isSpacePressed
       THEN /\ isPanning' = TRUE
            /\ Observe("mousedown", << x, y >>, << >>)
            /\ UNCHANGED << store, layers, past, future, isMouseDown, lastPaintedTiles,
                            selectionStart, selection, stroke >>
       ELSE LET checkpointed == currentTool # "marquee" /\ currentTool # "eyedropper"
                h == IF checkpointed THEN saveCheckpoint(Hist) ELSE Hist
                r == handleMapInteraction("mousedown", x, y, store[layers], {}, TRUE,
                                          selectionStart, selection)
            IN  /\ Commit(h, r.L)
                /\ isMouseDown' = TRUE
                /\ lastPaintedTiles' = r.painted
                /\ selectionStart' = r.selStart
                /\ selection' = r.sel
                /\ Observe("mousedown", << x, y >>,
                           (IF checkpointed THEN << "saveCheckpoint" >> ELSE << >>)
                           \o [i \in 1..r.calls |-> "setLayers"])
                /\ stroke' = [checkpoints |-> IF checkpointed THEN 1 ELSE 0,
                              writes |-> r.calls,
                              cells |-> Cardinality(r.painted),
                              changed |-> r.L # store[layers]]
                /\ UNCHANGED isPanning
    /\ UNCHANGED << mapSize, activeLayerIndex, currentTool, isFlipped, paletteSelection,
                    customBrush, clipboard, isSpacePressed >>

\* handleMapMouseMove
MouseMove(x, y) ==
    /\ steps < stepLimit
    /\ steps' = steps + 1
    /\ UNCHANGED fixed
    /\ IF isPanning \/ ~isMouseDown
       THEN /\ Observe("mousemove", << x, y >>, << >>)
            /\ UNCHANGED << store, layers, past, future, lastPaintedTiles, selectionStart,
                            selection, stroke >>
       ELSE LET r == handleMapInteraction("mousemove", x, y, store[layers], lastPaintedTiles,
                                          isMouseDown, selectionStart, selection)
            IN  /\ Commit(Hist, r.L)
                /\ lastPaintedTiles' = r.painted
                /\ selectionStart' = r.selStart
                /\ selection' = r.sel
                /\ Observe("mousemove", << x, y >>, [i \in 1..r.calls |-> "setLayers"])
                /\ stroke' = [stroke EXCEPT !.writes = @ + r.calls,
                                            !.cells = Cardinality(r.painted),
                                            !.changed = @ \/ r.L # store[layers]]
    /\ UNCHANGED << mapSize, activeLayerIndex, currentTool, isFlipped, paletteSelection,
                    customBrush, clipboard, isMouseDown, isPanning, isSpacePressed >>

\* The smart brush's recipe: the group expanded to the selection's width and
\* written to the active layer from the selection's corner, unflipped.
SmartBrushWrite(L, idx, sel, group) ==
    LET platformData == generatePlatformData(sel.w, group).data
        activeData == ActiveData(L, idx)
        targets == {<< sel.x + k[1], sel.y + k[2] >> : k \in DOMAIN platformData}
    IN  WithActiveData(L, idx,
            [c \in (DOMAIN activeData) \cup targets |->
                IF c \in targets
                THEN [tileId |-> platformData[<< c[1] - sel.x, c[2] - sel.y >>].tileId,
                      flipX |-> FALSE]
                ELSE activeData[c]])

\* handleMapMouseUp (also the canvas's onMouseLeave)
MouseUp ==
    /\ steps < stepLimit
    /\ steps' = steps + 1
    /\ UNCHANGED fixed
    /\ LET smart == /\ ~isPanning
                    /\ ~(currentTool = "eyedropper" /\ selection # Null)
                    /\ currentTool = "smartBrush"
                    /\ selection # Null
                    /\ activeTileGroup # Null
       IN
       /\ IF smart
          THEN LET Lnew == SmartBrushWrite(store[layers], activeLayerIndex, selection,
                                           activeTileGroup)
               IN  /\ Commit(saveCheckpoint(Hist), Lnew)
                   /\ Observe("mouseup", << >>, << "saveCheckpoint", "setLayers" >>)
                   /\ stroke' = [stroke EXCEPT !.checkpoints = @ + 1,
                                               !.writes = @ + 1,
                                               !.changed = @ \/ Lnew # store[layers]]
          ELSE /\ Observe("mouseup", << >>, << >>)
               /\ UNCHANGED << store, layers, past, future, stroke >>
       /\ IF isPanning
          THEN /\ isPanning' = FALSE
               /\ UNCHANGED << isMouseDown, lastPaintedTiles, customBrush, currentTool,
                               selection, paletteSelection >>
          ELSE /\ isMouseDown' = FALSE
               /\ lastPaintedTiles' = {}
               /\ UNCHANGED isPanning
               /\ IF currentTool = "eyedropper" /\ selection # Null
                  THEN LET s == sampleArea(store[layers], activeLayerIndex, selection) IN
                       IF s.found
                       THEN /\ customBrush' = s.brush
                            /\ currentTool' = "brush"
                            /\ selection' = Null
                            /\ paletteSelection' = s.palette
                       ELSE UNCHANGED << customBrush, currentTool, selection, paletteSelection >>
                  ELSE IF smart
                  THEN /\ selection' = Null
                       /\ UNCHANGED << customBrush, currentTool, paletteSelection >>
                  ELSE UNCHANGED << customBrush, currentTool, selection, paletteSelection >>
    /\ UNCHANGED << mapSize, activeLayerIndex, isFlipped, clipboard, isSpacePressed,
                    selectionStart >>

(***************************************************************************)
(* Keyboard handlers (window keydown / keyup; the target is not an input). *)
(***************************************************************************)
\* The delete-selection recipe: every key of the selection rectangle is deleted.
DeleteSelection(L, idx, sel) ==
    LET activeData == ActiveData(L, idx)
        inside == {k \in DOMAIN activeData :
                      /\ sel.x <= k[1] /\ k[1] < sel.x + sel.w
                      /\ sel.y <= k[2] /\ k[2] < sel.y + sel.h}
    IN  WithActiveData(L, idx, [k \in (DOMAIN activeData) \ inside |-> activeData[k]])

\* The copy handler's newClipboard.
CopySelection(L, idx, sel) ==
    LET activeData == ActiveData(L, idx)
        inside == {k \in DOMAIN activeData :
                      /\ sel.x <= k[1] /\ k[1] < sel.x + sel.w
                      /\ sel.y <= k[2] /\ k[2] < sel.y + sel.h}
    IN  [tiles |-> [k \in {<< q[1] - sel.x, q[2] - sel.y >> : q \in inside} |->
                       activeData[<< k[1] + sel.x, k[2] + sel.y >>]]]

\* The paste recipe.
PasteClipboard(L, idx, clipb, sel, flipped) ==
    LET activeData == ActiveData(L, idx)
        clip == clipb.tiles
        targetX == IF sel # Null THEN sel.x ELSE 0
        targetY == IF sel # Null THEN sel.y ELSE 0
        maxClipboardX == IF flipped THEN MaxOf({k[1] : k \in DOMAIN clip} \cup {0}) ELSE 0
        FinalKey(k) == << targetX + (IF flipped THEN maxClipboardX - k[1] ELSE k[1]),
                          targetY + k[2] >>
        written == {FinalKey(k) : k \in DOMAIN clip}
        Source(c) == CHOOSE k \in DOMAIN clip : FinalKey(k) = c
    IN  WithActiveData(L, idx,
            [c \in (DOMAIN activeData) \cup written |->
                IF c \in written
                THEN [clip[Source(c)] EXCEPT !.flipX = IF flipped THEN ~@ ELSE @]
                ELSE activeData[c]])

\* handleKeyDown
KeyDown(e) ==
    /\ steps < stepLimit
    /\ steps' = steps + 1
    /\ UNCHANGED fixed
    /\ LET L == store[layers]
           sampled == IF ToLowerCase(e.key) = "i" /\ selection # Null
                      THEN sampleArea(L, activeLayerIndex, selection)
                      ELSE [found |-> FALSE]
           isDelete == e.key = "Delete" \/ e.key = "Backspace"
           isUndoKey == e.ctrlKey /\ e.key = "z"
           isPaste == e.ctrlKey /\ e.key = "v" /\ clipboard # Null
           isCopy == e.ctrlKey /\ e.key = "c" /\ selection # Null
       IN
       IF e.key = " "
       THEN /\ isSpacePressed' = TRUE
            /\ Observe("keydown", e, << >>)
            /\ UNCHANGED << store, layers, past, future, currentTool, isFlipped, customBrush,
                            selection, paletteSelection, clipboard >>
       ELSE
         /\ UNCHANGED isSpacePressed
         /\ currentTool' =
               IF ToLowerCase(e.key) = "i" THEN (IF selection # Null
                                                   THEN (IF sampled.found THEN "brush" ELSE currentTool)
                                                   ELSE "eyedropper")
               ELSE IF ToLowerCase(e.key) = "b" THEN "brush"
               ELSE IF ToLowerCase(e.key) = "e" THEN "eraser"
               ELSE IF ToLowerCase(e.key) = "g" \/ ToLowerCase(e.key) = "f" THEN "fill"
               ELSE currentTool
         /\ customBrush' = IF sampled.found THEN sampled.brush ELSE customBrush
         /\ paletteSelection' = IF sampled.found THEN sampled.palette ELSE paletteSelection
         /\ selection' = IF sampled.found THEN Null ELSE selection
         /\ isFlipped' = IF ToLowerCase(e.key) = "x" THEN ~isFlipped ELSE isFlipped
         /\ clipboard' = IF isCopy THEN CopySelection(L, activeLayerIndex, selection) ELSE clipboard
         /\ IF isDelete /\ selection # Null
            THEN /\ Commit(saveCheckpoint(Hist), DeleteSelection(L, activeLayerIndex, selection))
                 /\ Observe("keydown", e, << "saveCheckpoint", "setLayers" >>)
            ELSE IF isUndoKey
            THEN IF e.shiftKey
                 THEN /\ Commit(performRedo(Hist), store[performRedo(Hist).layers])
                      /\ Observe("keydown", e, << "performRedo" >>)
                 ELSE /\ Commit(performUndo(Hist), store[performUndo(Hist).layers])
                      /\ Observe("keydown", e, << "performUndo" >>)
            ELSE IF isPaste
            THEN /\ Commit(saveCheckpoint(Hist),
                           PasteClipboard(L, activeLayerIndex, clipboard, selection, isFlipped))
                 /\ Observe("keydown", e, << "saveCheckpoint", "setLayers" >>)
            ELSE /\ Observe("keydown", e, << >>)
                 /\ UNCHANGED << store, layers, past, future >>
    /\ UNCHANGED << mapSize, activeLayerIndex, isMouseDown, isPanning, lastPaintedTiles,
                    selectionStart, stroke >>

\* handleKeyUp
KeyUp(e) ==
    /\ steps < stepLimit
    /\ steps' = steps + 1
    /\ UNCHANGED fixed
    /\ IF e.key = " "
       THEN /\ isSpacePressed' = FALSE
            /\ isPanning' = FALSE
            /\ Observe("keyup", e, << >>)
            /\ UNCHANGED << store, layers, past, future >>
       ELSE /\ UNCHANGED << isSpacePressed, isPanning >>
            /\ IF e.ctrlKey /\ ToLowerCase(e.key) = "z"
               THEN IF e.shiftKey
                    THEN /\ Commit(performRedo(Hist), store[performRedo(Hist).layers])
                         /\ Observe("keyup", e, << "performRedo" >>)
                    ELSE /\ Commit(performUndo(Hist), store[performUndo(Hist).layers])
                         /\ Observe("keyup", e, << "performUndo" >>)
               ELSE IF e.ctrlKey /\ ToLowerCase(e.key) = "y"
               THEN /\ Commit(performRedo(Hist), store[performRedo(Hist).layers])
                    /\ Observe("keyup", e, << "performRedo" >>)
               ELSE /\ Observe("keyup", e, << >>)
                    /\ UNCHANGED << store, layers, past, future >>
    /\ UNCHANGED << mapSize, activeLayerIndex, currentTool, isFlipped, paletteSelection,
                    customBrush, selection, clipboard, isMouseDown, lastPaintedTiles,
                    selectionStart, stroke >>

(***************************************************************************)
(* Toolbar, palette and layer panel.                                       *)
(***************************************************************************)
\* Toolbar: setCurrentTool(t)
SetCurrentTool(t) ==
    /\ steps < stepLimit
    /\ steps' = steps + 1
    /\ UNCHANGED fixed
    /\ currentTool' = t
    /\ Observe("setCurrentTool", t, << >>)
    /\ UNCHANGED << store, layers, past, future, mapSize, activeLayerIndex, isFlipped,
                    paletteSelection, customBrush, selection, clipboard, isMouseDown,
                    isPanning, isSpacePressed, lastPaintedTiles, selectionStart, stroke >>

\* Palette: setSelection(val) -> updatePaletteSelection(val), then onToolChange
SelectPalette(sel) ==
    /\ steps < stepLimit
    /\ steps' = steps + 1
    /\ UNCHANGED fixed
    /\ paletteSelection' = sel
    /\ customBrush' = PaletteBrush(sel)
    /\ currentTool' = IF currentTool # "brush" /\ currentTool # "fill" THEN "brush" ELSE currentTool
    /\ Observe("selectPalette", sel, << >>)
    /\ UNCHANGED << store, layers, past, future, mapSize, activeLayerIndex, isFlipped,
                    selection, clipboard, isMouseDown, isPanning, isSpacePressed,
                    lastPaintedTiles, selectionStart, stroke >>

\* LayerPanel: a click on a layer row, setActiveLayerIndex(index)
SetActiveLayerIndex(index) ==
    /\ steps < stepLimit
    /\ steps' = steps + 1
    /\ UNCHANGED fixed
    /\ index \in 0..(Len(store[layers]) - 1)
    /\ activeLayerIndex' = index
    /\ Observe("setActiveLayerIndex", index, << >>)
    /\ UNCHANGED << store, layers, past, future, mapSize, currentTool, isFlipped,
                    paletteSelection, customBrush, selection, clipboard, isMouseDown,
                    isPanning, isSpacePressed, lastPaintedTiles, selectionStart, stroke >>

(***************************************************************************)
(* The editor: initial states and next-state relation.                     *)
(*                                                                         *)
(* Besides the freshly constructed editor, Init holds editors whose past   *)
(* stack is nearly full or full: the state after the user has selected     *)
(* tile 4 in the palette and alternately painted it at cell (0,0) of the   *)
(* first layer and erased it again, one stroke each (every stroke pushes   *)
(* the layers it starts from).  The brush is the palette's 1x1 brush or,   *)
(* in an editor with history, a 2x1 brush sampled earlier from two cells   *)
(* holding tile 4, the second one flipped.                                 *)
(***************************************************************************)
PaintedOnce == paintTile(INITIAL_LAYERS, 0, 0, 0, Some(4), Some(FALSE), FALSE)

\* The layers a stroke of the alternating history starts from (1-based stroke number).
StrokeStart(i) == IF i % 2 = 1 THEN INITIAL_LAYERS ELSE PaintedOnce

\* << n, u >>: n strokes made, the last u of them undone.
HistoryShapes ==
    { << MaxHistory - 1, 0 >>, << MaxHistory, 0 >>, << MaxHistory, MaxHistory - 1 >> }

MixedBrush ==
    [width |-> 2, height |-> 1,
     data |-> [k \in {<< 0, 0 >>, << 1, 0 >>} |-> IF k[1] = 0 THEN TileA ELSE TileAFlipped]]

InitialPaletteSelection == [x |-> 0, y |-> 0, w |-> 1, h |-> 1]

Tile4Selection == [x |-> 4, y |-> 0, w |-> 1, h |-> 1]

NoStroke == [checkpoints |-> 0, writes |-> 0, cells |-> 0, changed |-> FALSE]

\* The part of the initial state the editor specifications share.
\* The registry's initial group (INITIAL_TILE_GROUPS.grass): a resizable terrain
\* platform without density or alignment fields.
Grass ==
    [id |-> "grass", role |-> "terrain",
     left |-> << 8 >>, middle |-> << << 9 >> >>, right |-> << 10 >>, single |-> << 9 >>,
     height |-> 1, preview |-> << 8, 9, 10 >>, canResize |-> TRUE, canFlip |-> FALSE,
     density |-> 0, verticalAlignments |-> None, verticalAlignment |-> None]

\* INITIAL_TILE_GROUPS, the registry as constructed.
INITIAL_TILE_GROUPS == << Grass >>

\* useImmer(INITIAL_TILE_GROUPS), useState(false); the dialog is not mounted.
InitRegistry ==
    /\ tileGroups = INITIAL_TILE_GROUPS
    /\ showGenModal = FALSE
    /\ selectedIds = << >>

InitEditor ==
    /\ activeLayerIndex = 0
    /\ isFlipped = FALSE
    /\ selection = Null
    /\ clipboard = Null
    /\ isMouseDown = FALSE
    /\ isPanning = FALSE
    /\ isSpacePressed = FALSE
    /\ lastPaintedTiles = {}
    /\ selectionStart = Null
    /\ obs = InitObs
    /\ stroke = NoStroke
    /\ steps = 0
    /\ activeTileGroup = Null
    /\ expansion = Null
    /\ fillRun = Null
    /\ InitRegistry
    /\ level = Null

\* The editor as constructed (with the sprite sheet loaded), before or after a
\* first palette selection.
Init ==
    /\ store = [a \in {1} |-> INITIAL_LAYERS]
    /\ past = << >>
    /\ future = << >>
    /\ layers = 1
    /\ \/ /\ customBrush = Null
          /\ paletteSelection = InitialPaletteSelection
       \/ /\ customBrush = PaletteBrush(Tile4Selection)
          /\ paletteSelection = Tile4Selection
    /\ mapSize = [width |-> MapWidth, height |-> MapHeight]
    /\ currentTool = "brush"
    /\ stepLimit = MaxSteps
    /\ InitEditor

\* The editor after n strokes of the alternating history, the last u of them
\* undone again: a nearly full or full past stack (u = 0), or a nearly full or
\* full future stack.
InitHistory ==
    /\ \E shape \in HistoryShapes :
      LET n == shape[1]
          u == shape[2]
      IN
        /\ store = [a \in 1..(n + 1) |-> StrokeStart(a)]
        /\ past = [i \in 1..(n - u) |-> i]
        /\ layers = n - u + 1
        /\ future = [j \in 1..u |-> n + 2 - j]
        /\ \/ /\ customBrush = PaletteBrush(Tile4Selection)
              /\ paletteSelection = Tile4Selection
           \/ /\ u = 0
              /\ customBrush = MixedBrush
              /\ paletteSelection = [x |-> 0, y |-> 0, w |-> 0, h |-> 0]
    /\ mapSize = [width |-> MapWidth, height |-> MapHeight]
    /\ currentTool = "brush"
    /\ stepLimit = MaxHistorySteps
    /\ InitEditor

Next ==
    \/ \E x \in PointerXs, y \in PointerYs : MouseDown(x, y)
    \/ \E x \in PointerXs, y \in PointerYs : MouseMove(x, y)
    \/ MouseUp
    \/ \E e \in KeyDownEvents : KeyDown(e)
    \/ \E e \in KeyUpEvents : KeyUp(e)
    \/ \E t \in Tools : SetCurrentTool(t)
    \/ \E sel \in PaletteSelections : SelectPalette(sel)
    \/ \E index \in 0..2 : SetActiveLayerIndex(index)

Spec == Init /\ [][Next]_vars

SpecHistory == InitHistory /\ [][Next]_vars

(***************************************************************************)
(* floodFill as a function: the grid, the flip state and the start cell    *)
(* are drawn from bounded sets and floodFill is applied to them, then      *)
(* applied once more with the same arguments.  The grid is the active      *)
(* (second) layer; the other two layers hold tiles of their own.           *)
(***************************************************************************)
InMap == (0..(FillWidth - 1)) \X (0..(FillHeight - 1))

FillUniverse == ((0 - 1)..FillWidth) \X ((0 - 1)..FillHeight)

Tile5 == [tileId |-> 5, flipX |-> FALSE]

Tile9 == [tileId |-> 9, flipX |-> FALSE]

Tile9Selection == [x |-> 1, y |-> 1, w |-> 1, h |-> 1]

\* Every content of the in-map cells over {empty, tile 5, tile 9}, with at most
\* one tile 5 outside the map.
FillGrids ==
    { [c \in {q \in InMap : f[q] # Null} \cup out |-> IF c \in out THEN Tile5 ELSE f[c]] :
        f \in [InMap -> {Null, Tile5, Tile9}],
        out \in {{}} \cup {{q} : q \in FillUniverse \ InMap} }

FillLayers(grid) ==
    << [INITIAL_LAYERS[1] EXCEPT !.data = [k \in {<< 0, 0 >>} |-> Tile5]],
       [INITIAL_LAYERS[2] EXCEPT !.data = grid],
       [INITIAL_LAYERS[3] EXCEPT !.data = [k \in {<< 0, 0 >>, << 1, 0 >>} |-> Tile9]] >>

InitFill ==
    /\ \E grid \in FillGrids : store = [a \in {1} |-> FillLayers(grid)]
    /\ layers = 1
    /\ past = << >>
    /\ mapSize = [width |-> FillWidth, height |-> FillHeight]
    /\ isFlipped \in BOOLEAN
    /\ paletteSelection = Tile9Selection
    /\ customBrush = PaletteBrush(Tile9Selection)
    /\ currentTool = "fill"
    /\ stepLimit = MaxFills
    /\ future = << >>
    /\ activeLayerIndex = 1
    /\ selection = Null
    /\ clipboard = Null
    /\ isMouseDown = FALSE
    /\ isPanning = FALSE
    /\ isSpacePressed = FALSE
    /\ lastPaintedTiles = {}
    /\ selectionStart = Null
    /\ obs = InitObs
    /\ stroke = NoStroke
    /\ steps = 0
    /\ activeTileGroup = Null
    /\ expansion = Null
    /\ fillRun = Null
    /\ InitRegistry
    /\ level = Null

FillTileId == paletteSelection.y * tilesPerRow + paletteSelection.x

\* floodFill(sx, sy, fillTileId) on the current layers; the second call repeats
\* the first call's start cell.
FloodFillCall(sx, sy) ==
    /\ steps < stepLimit
    /\ steps' = steps + 1
    /\ steps > 0 => obs.input = << sx, sy >>
    /\ Commit(Hist, floodFill(store[layers], activeLayerIndex, sx, sy, FillTileId,
                              isFlipped, mapSize))
    /\ Observe("floodFill", << sx, sy >>, << "setLayers" >>)
    /\ UNCHANGED << mapSize, activeLayerIndex, currentTool, isFlipped, paletteSelection,
                    customBrush, selection, clipboard, isMouseDown, isPanning,
                    isSpacePressed, lastPaintedTiles, selectionStart, stroke, fixed >>

NextFill == \E c \in FillUniverse : FloodFillCall(c[1], c[2])

SpecFill == InitFill /\ [][NextFill]_vars

(***************************************************************************)
(* Properties.                                                             *)
(***************************************************************************)
Called(op) == op \in Range(obs.ops)

ByMouse == obs.handler \in {"mousedown", "mousemove"}

\* C1: performUndo on a non-empty past stack directly followed by performRedo
\* leaves the layer sequence, the past stack and the future stack equal to their
\* values before the undo.
C1_UndoRedoRoundTrip == obs.roundTrip # Null => Snapshot = obs.roundTrip

\* C1 witness: a redo has directly followed an undo that popped a snapshot
\* different from the layers it replaced.
C1_Witness ==
    /\ obs.roundTrip # Null
    /\ obs.ops = << "performRedo" >>
    /\ Last(obs.roundTrip.past) # obs.roundTrip.layers

\* C2: the past stack and the future stack hold at most 50 snapshots each.
C2_StacksBounded == Len(past) <= MaxHistory /\ Len(future) <= MaxHistory

\* C2 witness: performRedo has pushed the 50th snapshot onto past (no cap is
\* applied there).
C2_Witness ==
    /\ obs.ops = << "performRedo" >>
    /\ Len(obs.pre.past) = MaxHistory - 1
    /\ Len(past) = MaxHistory

\* C3: a handler that calls saveCheckpoint leaves the layers it started from on
\* top of past and an empty future stack, so that performRedo changes nothing;
\* a performRedo that directly follows such a handler changes nothing.
C3_CheckpointClearsRedo ==
    /\ Called("saveCheckpoint") =>
          /\ future = << >>
          /\ Len(past) > 0
          /\ store[Last(past)] = obs.pre.layers
          /\ performRedo(Hist) = Hist
    /\ (obs.ops = << "performRedo" >> /\ "saveCheckpoint" \in Range(obs.before)) =>
          Snapshot = obs.pre

\* C3 witness: saveCheckpoint was called while redo entries existed.
C3_Witness == Called("saveCheckpoint") /\ obs.pre.future # << >>

\* C3 witness of the second form: a performRedo directly after a checkpointing handler.
C3_RedoWitness ==
    obs.ops = << "performRedo" >> /\ "saveCheckpoint" \in Range(obs.before)

\* C4: performUndo with an empty past changes nothing, and so does performRedo
\* with an empty future; with a non-empty past performUndo removes the top of
\* past, pushes the layers it started from onto future and makes the removed
\* snapshot the current layers.
C4_UndoSemantics ==
    /\ obs.ops = << "performUndo" >> =>
          IF obs.pre.past = << >>
          THEN Snapshot = obs.pre
          ELSE Snapshot = [layers |-> Last(obs.pre.past),
                           past |-> Front(obs.pre.past),
                           future |-> Append(obs.pre.future, obs.pre.layers)]
    /\ (obs.ops = << "performRedo" >> /\ obs.pre.future = << >>) => Snapshot = obs.pre

\* C4 witness: an undo that popped a snapshot different from the current layers.
C4_Witness ==
    /\ obs.ops = << "performUndo" >>
    /\ obs.pre.past # << >>
    /\ Last(obs.pre.past) # obs.pre.layers

\* C4 witness of the no-op case: an undo on an empty past stack.
C4_EmptyWitness == obs.ops = << "performUndo" >> /\ obs.pre.past = << >>

\* C5: when past holds 50 snapshots, saveCheckpoint drops the bottom one, keeps
\* the other 49 in order and puts the new snapshot on top.
C5_EvictsOldest ==
    (Called("saveCheckpoint") /\ Len(obs.pre.past) = MaxHistory) =>
        Deref(store, past) = Append(Tail(obs.pre.past), obs.pre.layers)

\* C5 witness: a checkpoint pushed onto a full past stack whose bottom and top differ.
C5_Witness ==
    /\ Called("saveCheckpoint")
    /\ Len(obs.pre.past) = MaxHistory
    /\ obs.pre.past[1] # obs.pre.layers

C6_DragWitness ==
    /\ obs.handler = "mousemove"
    /\ Called("setLayers")
    /\ Len(past) > 0
    /\ store[layers] # obs.pre.layers

\* C7: every mouse stroke (mousedown, mousemoves, mouseup) that changes the layers
\* has pushed exactly one checkpoint, at its mousedown and so before its first
\* write, however many cells it painted; delete-selection and paste push exactly
\* one checkpoint before they write.
C7_OneCheckpointPerAction ==
    /\ stroke.changed => stroke.checkpoints = 1
    /\ (obs.handler = "keydown" /\ Called("setLayers")) =>
           obs.ops = << "saveCheckpoint", "setLayers" >>

\* The cell a pointer position lies in.
CellOf(pos) == << FloorDiv(pos[1], gridSize), FloorDiv(pos[2], gridSize) >>

\* (a XOR b)
Xor(a, b) == (a /\ ~b) \/ (~a /\ b)

\* What a stamp of brush at cell t must leave in the active layer's data.
StampExpected(data, brush, t, flipped) ==
    LET Mirror(k) == IF flipped THEN brush.width - 1 - k[1] ELSE k[1]
        Target(k) == << t[1] + Mirror(k), t[2] + k[2] >>
        inside == {k \in DOMAIN brush.data :
                      /\ 0 <= Target(k)[1] /\ Target(k)[1] < mapSize.width
                      /\ 0 <= Target(k)[2] /\ Target(k)[2] < mapSize.height}
        targets == {Target(k) : k \in inside}
    IN  [c \in (DOMAIN data) \cup targets |->
            IF c \in targets
            THEN LET k == CHOOSE q \in inside : Target(q) = c
                 IN  [tileId |-> brush.data[k].tileId,
                      flipX |-> Xor(brush.data[k].flipX, flipped)]
            ELSE data[c]]

Stamped == ByMouse /\ currentTool = "brush" /\ customBrush # Null /\ Called("setLayers")

\* C10: a stamp of the custom brush at a cell writes every brush entry that falls
\* inside the map at the mirrored offset with the entry's tileId and with flipX =
\* entry.flipX XOR isFlipped, and nothing else; the 2x1 brush {4 unflipped, 4
\* flipped} stamped at (0,0) while flipped leaves {4, flipped} at (1,0) and
\* {4, unflipped} at (0,0).
C10_StampMirrorsAndXors ==
    Stamped =>
        /\ store[layers] =
              WithActiveData(obs.pre.layers, activeLayerIndex,
                  StampExpected(ActiveData(obs.pre.layers, activeLayerIndex),
                                customBrush, CellOf(obs.input), isFlipped))
        /\ (customBrush = MixedBrush /\ isFlipped /\ CellOf(obs.input) = << 0, 0 >>) =>
              /\ ActiveData(store[layers], activeLayerIndex)[<< 1, 0 >>] = TileAFlipped
              /\ ActiveData(store[layers], activeLayerIndex)[<< 0, 0 >>] = TileA

\* C10 witness: the mixed-flip brush stamped at (0,0) with isFlipped.
C10_Witness ==
    Stamped /\ customBrush = MixedBrush /\ isFlipped /\ CellOf(obs.input) = << 0, 0 >>

(***************************************************************************)
(* Properties of floodFill (SpecFill).                                     *)
(***************************************************************************)
Adjacent(c, d) ==
    \/ (c[1] = d[1] /\ (c[2] = d[2] + 1 \/ d[2] = c[2] + 1))
    \/ (c[2] = d[2] /\ (c[1] = d[1] + 1 \/ d[1] = c[1] + 1))

\* The cells of the map: [0, width) x [0, height).
MapCells == (0..(mapSize.width - 1)) \X (0..(mapSize.height - 1))

\* The maximal 4-connected set of map cells holding tile id `id` (<< >> for an
\* empty cell) that contains S, as a least fixed point.
RECURSIVE Grow(_, _, _)
Grow(S, data, id) ==
    LET more == {c \in MapCells : TileIdAt(data, c) = id /\ \E d \in S : Adjacent(c, d)}
    IN  IF more \subseteq S THEN S ELSE Grow(S \cup more, data, id)

Region(data, start) ==
    IF start \in MapCells THEN Grow({start}, data, TileIdAt(data, start)) ELSE {}

FillStart == << obs.input[1], obs.input[2] >>

PreData == ActiveData(obs.pre.layers, activeLayerIndex)

\* C8: when the start cell's tileId differs from the fill tileId, floodFill writes
\* the fill tile to exactly the cells of the maximal 4-connected region of map
\* cells that contains the start cell and matches its tileId; every other cell of
\* the active layer (cells outside the map included) and every other layer is
\* unchanged.
C8_FillsExactlyRegion ==
    (obs.handler = "floodFill" /\ TileIdAt(PreData, FillStart) # Some(FillTileId)) =>
        LET region == Region(PreData, FillStart) IN
        store[layers] =
            WithActiveData(obs.pre.layers, activeLayerIndex,
                [c \in (DOMAIN PreData) \cup region |->
                    IF c \in region THEN [tileId |-> FillTileId, flipX |-> isFlipped]
                    ELSE PreData[c]])

\* C8 witness: a fill of tile-5 cells whose region has at least two cells but not
\* the whole map, and has a tile-5 neighbour outside the map.
C8_Witness ==
    /\ obs.handler = "floodFill"
    /\ TileIdAt(PreData, FillStart) = Some(5)
    /\ Cardinality(Region(PreData, FillStart)) >= 2
    /\ MapCells \ Region(PreData, FillStart) # {}
    /\ \E c \in (DOMAIN PreData) \ MapCells :
          \E d \in Region(PreData, FillStart) : Adjacent(c, d)

\* C8 witness of 4-connectivity: a fill that leaves out a tile-5 cell of the map
\* touching the region only diagonally.
C8_DiagonalWitness ==
    /\ obs.handler = "floodFill"
    /\ TileIdAt(PreData, FillStart) = Some(5)
    /\ \E c \in MapCells \ Region(PreData, FillStart) : TileIdAt(PreData, c) = Some(5)

\* C8 witness on empty cells: a fill of an empty region that some tile cuts off
\* from another empty cell of the map.
C8_EmptyWitness ==
    /\ obs.handler = "floodFill"
    /\ FillStart \in MapCells
    /\ TileIdAt(PreData, FillStart) = None
    /\ \E c \in MapCells \ Region(PreData, FillStart) : TileIdAt(PreData, c) = None

\* C9: floodFill whose start cell already holds the fill tileId changes no cell of
\* any layer, whatever that cell's flipX; a second fill with the same arguments
\* never changes the grid.
C9_SameIdNoOp ==
    /\ (obs.handler = "floodFill" /\ TileIdAt(PreData, FillStart) = Some(FillTileId)) =>
           store[layers] = obs.pre.layers
    /\ (obs.handler = "floodFill" /\ steps = 2) => store[layers] = obs.pre.layers

\* C9 witness: a fill started on a cell that holds the fill tileId with a flipX
\* different from the global flip state, next to another cell with the fill tileId.
C9_Witness ==
    /\ obs.handler = "floodFill"
    /\ FillStart \in MapCells
    /\ TileIdAt(PreData, FillStart) = Some(FillTileId)
    /\ PreData[FillStart].flipX # isFlipped
    /\ \E c \in MapCells : Adjacent(c, FillStart) /\ TileIdAt(PreData, c) = Some(FillTileId)

\* C9 witness of the repetition: the second of two equal fills, the first of which
\* changed the grid.
C9_RepeatWitness ==
    /\ obs.handler = "floodFill"
    /\ steps = 2
    /\ FillStart \in MapCells
    /\ Cardinality(Region(PreData, FillStart)) >= 2

(***************************************************************************)
(* generatePlatformData as a function: the group and the width are drawn   *)
(* from bounded sets and the expansion is applied to them.                 *)
(***************************************************************************)
\* Columns of tile ids first, first + 1, ... of every length up to MaxColumnLength.
Columns(first) == { [i \in 1..n |-> first + i - 1] : n \in 0..MaxColumnLength }

\* Sequences over S of length at most n.
SeqsUpTo(S, n) == UNION { [1..k -> S] : k \in 0..n }

\* TileGroups whose columns are told apart by their tile ids: left 10.., right
\* 20.., single 30 (or 5, 5+1, ...), middle columns 40.. and 50...  height is
\* the canonical column height, at least 1; columns may be shorter, also empty.
PatternGroups ==
    [left : Columns(10),
     middle : SeqsUpTo(Columns(40) \cup { << 50 >> }, MaxMiddleColumns),
     right : Columns(20),
     single : Columns(30) \cup { << 5 >> },
     height : 1..MaxGroupHeight]

InitPattern ==
    /\ activeTileGroup \in PatternGroups
    /\ expansion = Null
    /\ fillRun = Null
    /\ InitRegistry
    /\ level = Null
    /\ store = [a \in {1} |-> INITIAL_LAYERS]
    /\ past = << >>
    /\ future = << >>
    /\ layers = 1
    /\ customBrush = Null
    /\ paletteSelection = InitialPaletteSelection
    /\ mapSize = [width |-> MapWidth, height |-> MapHeight]
    /\ currentTool = "brush"
    /\ stepLimit = MaxExpansions
    /\ activeLayerIndex = 0
    /\ isFlipped = FALSE
    /\ selection = Null
    /\ clipboard = Null
    /\ isMouseDown = FALSE
    /\ isPanning = FALSE
    /\ isSpacePressed = FALSE
    /\ lastPaintedTiles = {}
    /\ selectionStart = Null
    /\ obs = InitObs
    /\ stroke = NoStroke
    /\ steps = 0

\* generatePlatformData(width, activeTileGroup)
ExpandPattern(width) ==
    /\ steps < stepLimit
    /\ steps' = steps + 1
    /\ expansion' = [width |-> width, out |-> generatePlatformData(width, activeTileGroup)]
    /\ UNCHANGED << store, layers, past, future, mapSize, activeLayerIndex, currentTool,
                    isFlipped, paletteSelection, customBrush, selection, clipboard,
                    isMouseDown, isPanning, isSpacePressed, lastPaintedTiles,
                    selectionStart, obs, stroke, stepLimit, activeTileGroup, level,
                    fillRun, tileGroups,
                    showGenModal, selectedIds >>

\* The widths asked for: negative, zero and positive.
ExpansionWidths == (0 - 1)..MaxExpansionWidth

NextPattern == \E width \in ExpansionWidths : ExpandPattern(width)

SpecPattern == InitPattern /\ [][NextPattern]_vars

(***************************************************************************)
(* Properties of generatePlatformData (SpecPattern).                       *)
(***************************************************************************)
Expanded(width) == expansion # Null /\ expansion.width = width

\* The cells of column x the column array col gives: row y holds
\* col[y mod length], nothing for an empty col.
ColumnCells(x, col, height) ==
    [c \in {<< x, y >> : y \in {r \in 0..(height - 1) : Len(col) > 0}} |->
        [tileId |-> col[(c[2] % Len(col)) + 1], flipX |-> FALSE]]

\* The union of mappings with disjoint domains.
Join(f, g) == [c \in (DOMAIN f) \cup (DOMAIN g) |-> IF c \in DOMAIN f THEN f[c] ELSE g[c]]

ReadFields == {expansion.out.reads[i].field : i \in DOMAIN expansion.out.reads}

\* C11: expanded to width 1, a TileGroup gives exactly the column dx = 0 whose row
\* y (0 <= y < height) holds single[y mod single.length] with flipX false, and
\* neither left, right nor middle is read.
C11_WidthOneIsSingle ==
    Expanded(1) =>
        /\ expansion.out.data = ColumnCells(0, activeTileGroup.single, activeTileGroup.height)
        /\ ReadFields = {"single"}

\* C11 witness: single = [5] at height 3 gives tile 5, unflipped, at (0,0), (0,1)
\* and (0,2).
C11_Witness ==
    /\ Expanded(1)
    /\ activeTileGroup.single = << 5 >>
    /\ activeTileGroup.height = 3
    /\ activeTileGroup.left # << >>
    /\ expansion.out.data = [c \in {<< 0, 0 >>, << 0, 1 >>, << 0, 2 >>} |->
                                [tileId |-> 5, flipX |-> FALSE]]

\* C12: expanded to width 2, a TileGroup gives exactly the left column at dx = 0
\* and the right column at dx = 1; middle is not read, whether it is empty or not.
C12_WidthTwoIsCaps ==
    Expanded(2) =>
        /\ expansion.out.data =
              Join(ColumnCells(0, activeTileGroup.left, activeTileGroup.height),
                   ColumnCells(1, activeTileGroup.right, activeTileGroup.height))
        /\ ReadFields = {"left", "right"}

\* C12 witness: a width-2 expansion of a group with an empty middle list and
\* non-empty caps.
C12_Witness ==
    /\ Expanded(2)
    /\ activeTileGroup.middle = << >>
    /\ activeTileGroup.left # << >>
    /\ activeTileGroup.right # << >>
    /\ {c[1] : c \in DOMAIN expansion.out.data} = {0, 1}

\* C12 witness with a middle: a width-2 expansion of a group with two middle columns.
C12_MiddleWitness ==
    /\ Expanded(2)
    /\ Len(activeTileGroup.middle) = 2
    /\ activeTileGroup.left # << >>

\* The columns 1 .. width-2 taken from middle[(x-1) mod middle.length].
RECURSIVE MiddleCells(_, _, _)
MiddleCells(x, width, group) ==
    IF x > width - 2 THEN EmptyData
    ELSE Join(ColumnCells(x, group.middle[((x - 1) % Len(group.middle)) + 1], group.height),
              MiddleCells(x + 1, width, group))

UsedColumns(width, group) ==
    {group.left, group.right}
        \cup {group.middle[((x - 1) % Len(group.middle)) + 1] : x \in 1..(width - 2)}

\* C13: for width >= 3 and a non-empty middle list the expansion has column 0 from
\* left, column width-1 from right and column x (1 <= x <= width-2) from
\* middle[(x-1) mod middle.length], row y of a column holding column[y mod
\* column.length] with flipX false; it covers exactly [0,width) x [0,height)
\* when no used column is empty.
C13_WideIsLeftMiddleRight ==
    (expansion # Null /\ expansion.width >= 3 /\ Len(activeTileGroup.middle) > 0) =>
        LET w == expansion.width
            g == activeTileGroup
        IN  /\ expansion.out.data =
                  Join(ColumnCells(0, g.left, g.height),
                       Join(MiddleCells(1, w, g), ColumnCells(w - 1, g.right, g.height)))
            /\ (<< >> \notin UsedColumns(w, g)) =>
                  DOMAIN expansion.out.data = (0..(w - 1)) \X (0..(g.height - 1))

\* C13 witness: a width-4 expansion of a group with two different non-empty
\* middle columns, one shorter than the height.
C13_Witness ==
    /\ expansion # Null
    /\ expansion.width = 4
    /\ activeTileGroup.middle = << << 50 >>, << 40, 41 >> >>
    /\ activeTileGroup.height = 3
    /\ << >> \notin UsedColumns(4, activeTileGroup)
    /\ expansion.out.data[<< 1, 2 >>].tileId = 50
    /\ expansion.out.data[<< 2, 2 >>].tileId = 40

(***************************************************************************)
(* generateProceduralLevel.  Math.random() is a stream of draws: draw      *)
(* number i of a run is draws[(i mod Len(draws)) + 1], a number n in       *)
(* 0..99 standing for the value n / 100.  The generator's working state is *)
(*   g = [main, bg, coll   the data of the three layers,                   *)
(*        i                the number of draws consumed,                   *)
(*        placements       the scatter instances that reached the overlap  *)
(*                         test, in order: their cells and the background  *)
(*                         before and after].                              *)
(* The loops read g.i on entry (it is never negative): operator arguments  *)
(* are passed unevaluated, and this has the working state computed before  *)
(* the next iteration starts.                                              *)
(***************************************************************************)
\* Math.random() as n / 100.
RandomScale == 100

\* The draw the (i+1)-th call of Math.random() returns.
Random(draws, i) == draws[(i % Len(draws)) + 1]

\* Math.floor(Math.random() * k) for an integer k
RandomInt(draws, i, k) == FloorDiv(Random(draws, i) * k, RandomScale)

\* group.density || 5
Density(group) == IF group.density = 0 THEN 5 ELSE group.density

\* verticalAlignments || (verticalAlignment ? [verticalAlignment] : ["top", "bottom"])
Alignments(group) ==
    IF group.verticalAlignments # None THEN group.verticalAlignments[1]
    ELSE IF group.verticalAlignment # None THEN {group.verticalAlignment[1]}
    ELSE {"top", "bottom"}

\* array.filter(pred) for the predicate "role is r"
FilterRole(groups, r) == SelectSeq(groups, LAMBDA grp : grp.role = r)

MaxOfTwo(a, b) == IF a > b THEN a ELSE b

\* Math.ceil(density / 1.5)
CeilDensity(density) == (2 * density + 2) \div 3

\* A variant that writes the platform over what the terrain layer holds.
PlacePlatformOverwriting(g, platformData, currentX, currentY, height) ==
    LET Target(k) == << currentX + k[1], currentY + k[2] >>
        written == {k \in DOMAIN platformData : Target(k)[2] >= 0 /\ Target(k)[2] < height}
        targets == {Target(k) : k \in written}
        Source(c) == CHOOSE k \in written : Target(k) = c
    IN  [g EXCEPT
           !.main = [c \in (DOMAIN g.main) \cup targets |->
                        IF c \in targets
                        THEN [tileId |-> platformData[Source(c)].tileId, flipX |-> FALSE]
                        ELSE g.main[c]],
           !.coll = [c \in (DOMAIN g.coll) \cup targets |->
                        IF c \in targets THEN [tileId |-> 0, flipX |-> FALSE]
                        ELSE g.coll[c]]]

\* A variant that marks only the platform's top row solid.
PlacePlatformSolidTopRow(g, platformData, currentX, currentY, height) ==
    LET Target(k) == << currentX + k[1], currentY + k[2] >>
        written == {k \in DOMAIN platformData :
                       /\ Target(k)[2] >= 0
                       /\ Target(k)[2] < height
                       /\ Target(k) \notin DOMAIN g.main}
        targets == {Target(k) : k \in written}
        solid == {c \in targets : c[2] = currentY}
        Source(c) == CHOOSE k \in written : Target(k) = c
    IN  [g EXCEPT
           !.main = [c \in (DOMAIN g.main) \cup targets |->
                        IF c \in targets
                        THEN [tileId |-> platformData[Source(c)].tileId, flipX |-> FALSE]
                        ELSE g.main[c]],
           !.coll = [c \in (DOMAIN g.coll) \cup solid |->
                        IF c \in solid THEN [tileId |-> 0, flipX |-> FALSE]
                        ELSE g.coll[c]]]

\* The platform's tiles written to the terrain layer where it is still empty, and
\* the collision tile 0 to the same cells (the keys of one platform are distinct,
\* so the order of Object.entries does not matter).
PlacePlatform(g, platformData, currentX, currentY, height) ==
    LET Target(k) == << currentX + k[1], currentY + k[2] >>
        written == {k \in DOMAIN platformData :
                       /\ Target(k)[2] >= 0
                       /\ Target(k)[2] < height
                       /\ Target(k) \notin DOMAIN g.main}
        targets == {Target(k) : k \in written}
        Source(c) == CHOOSE k \in written : Target(k) = c
    IN  [g EXCEPT
           !.main = [c \in (DOMAIN g.main) \cup targets |->
                        IF c \in targets
                        THEN [tileId |-> platformData[Source(c)].tileId, flipX |-> FALSE]
                        ELSE g.main[c]],
           !.coll = [c \in (DOMAIN g.coll) \cup targets |->
                        IF c \in targets THEN [tileId |-> 0, flipX |-> FALSE]
                        ELSE g.coll[c]]]

\* The cells of a pattern anchored at (x0, y0), mirrored or not, that pass the
\* test gy >= 0 && gy < height.
PatternCells(data, w, shouldFlip, x0, y0, height) ==
    {c \in {<< x0 + (IF shouldFlip THEN w - 1 - k[1] ELSE k[1]), y0 + k[2] >> : k \in DOMAIN data} :
        c[2] >= 0 /\ c[2] < height}

\* const h = group.height || 1
GroupHeight(group) == IF group.height = 0 THEN 1 ELSE group.height

\* One terrain decoration written to the terrain layer, over whatever is there.
PlaceTerrainDeco(main, decoData, decoW, shouldFlip, x0, y0, height) ==
    LET Target(k) == << x0 + (IF shouldFlip THEN decoW - 1 - k[1] ELSE k[1]), y0 + k[2] >>
        written == {k \in DOMAIN decoData : Target(k)[2] >= 0 /\ Target(k)[2] < height}
        targets == {Target(k) : k \in written}
        Source(c) == CHOOSE k \in written : Target(k) = c
    IN  [c \in (DOMAIN main) \cup targets |->
            IF c \in targets
            THEN [tileId |-> decoData[Source(c)].tileId, flipX |-> shouldFlip]
            ELSE main[c]]

\* for (let dx = 0; dx < platWidth; dx++) { ... } of the terrain decoration placement
RECURSIVE TerrainDecoLoop(_, _, _, _, _, _, _, _)
TerrainDecoLoop(g, draws, terrainDecoGroups, dx, platWidth, currentX, currentY, height) ==
    IF dx >= platWidth \/ g.i < 0 THEN g
    ELSE
      LET randomGroup ==
              terrainDecoGroups[RandomInt(draws, g.i, Len(terrainDecoGroups)) + 1]
          \* Math.random() < (decoDensity / 5) * 0.3
          triggered == Random(draws, g.i + 1) * 50 < Density(randomGroup) * 3 * RandomScale
          decoW == Len(randomGroup.preview)
          fits == dx + decoW <= platWidth
          shouldFlip == randomGroup.canFlip /\ Random(draws, g.i + 2) * 2 < RandomScale
          used == 2 + (IF triggered /\ fits /\ randomGroup.canFlip THEN 1 ELSE 0)
          placed == PlaceTerrainDeco(g.main, generatePlatformData(decoW, randomGroup).data,
                                     decoW, shouldFlip, currentX + dx, currentY - 1, height)
          g1 == IF triggered /\ fits
                THEN [g EXCEPT !.main = placed,
                               !.i = g.i + used,
                               !.terrainLog =
                                   Append(@, [kind |-> "decoration", group |-> randomGroup.id,
                                              h |-> GroupHeight(randomGroup),
                                              cells |-> PatternCells(
                                                  generatePlatformData(decoW, randomGroup).data,
                                                  decoW, shouldFlip, currentX + dx,
                                                  currentY - 1, height),
                                              top |-> currentY, mainBefore |-> g.main,
                                              mainAfter |-> placed, collBefore |-> g.coll,
                                              collAfter |-> g.coll])]
                ELSE [g EXCEPT !.i = g.i + used]
      IN  TheOne({TerrainDecoLoop(next, draws, terrainDecoGroups, dx + 1, platWidth,
                                  currentX, currentY, height) : next \in {g1}})

\* A variant of the lower gap bound without the floor of 1.
minDistantUnfloored(density) == 7 - CeilDensity(density)

\* Math.max(1, 7 - Math.ceil(density / 1.5))
minDistant(density) == MaxOfTwo(1, 7 - CeilDensity(density))

\* Math.max(minDistant + 1, 12 - density)
maxDistant(density) == MaxOfTwo(minDistant(density) + 1, 12 - density)

\* One pass through the body of while (currentX < width - 5): the platform, its
\* decorations, the move of the walker and the clamped row change.
WalkerStep(g, draws, terrainGroup, terrainDecoGroups, currentX, currentY, yMin, yMax, height) ==
    LET density == Density(terrainGroup)
        minGap == minDistant(density)
        maxGap == maxDistant(density)
        platWidth == RandomInt(draws, g.i, 6) + 3
        platformData == generatePlatformData(platWidth, terrainGroup).data
        Logged(p1) ==
            [p1 EXCEPT !.terrainLog =
                Append(@, [kind |-> "platform", group |-> terrainGroup.id,
                           h |-> GroupHeight(terrainGroup), top |-> currentY,
                           cells |-> PatternCells(platformData, platWidth, FALSE,
                                                  currentX, currentY, height),
                           mainBefore |-> g.main, mainAfter |-> p1.main,
                           collBefore |-> g.coll, collAfter |-> p1.coll])]
        g1 == TheOne({Logged(p1) : p1 \in {PlacePlatform([g EXCEPT !.i = g.i + 1], platformData,
                                                         currentX, currentY, height)}})
        Decorated(placed) ==
            IF Len(terrainDecoGroups) > 0
            THEN TerrainDecoLoop(placed, draws, terrainDecoGroups, 0, platWidth,
                                 currentX, currentY, height)
            ELSE placed
        Moved(g2) ==
            LET gap == RandomInt(draws, g2.i, maxGap - minGap + 1) + minGap
                nextX == currentX + platWidth + gap
                moved == currentY + RandomInt(draws, g2.i + 1, 5) - 2
                raised == IF moved < yMin THEN yMin ELSE moved
                clamped == IF raised > yMax THEN yMax ELSE raised
                step == [group |-> terrainGroup.id, x |-> currentX, y |-> currentY,
                         yMin |-> yMin, yMax |-> yMax, platWidth |-> platWidth,
                         minGap |-> minGap, maxGap |-> maxGap, gap |-> gap,
                         nextX |-> nextX, nextY |-> clamped]
            IN  [g |-> [g2 EXCEPT !.i = g2.i + 2, !.walk = Append(@, step)],
                 x |-> nextX, y |-> clamped]
    IN  TheOne({Moved(g2) : g2 \in {TheOne({Decorated(placed) : placed \in {g1}})}})

\* A variant of the loop test that never lets the walker in.
WalkerContinuesNever(currentX, width) == FALSE

\* currentX < width - 5
WalkerContinues(currentX, width) == currentX < width - 5

\* while (currentX < width - 5) { ... } of one terrain group's walker
RECURSIVE WalkerLoop(_, _, _, _, _, _, _, _, _, _)
WalkerLoop(g, draws, terrainGroup, terrainDecoGroups, currentX, currentY, yMin, yMax, width, height) ==
    IF ~WalkerContinues(currentX, width) \/ g.i < 0 THEN g
    ELSE
      TheOne({WalkerLoop(r.g, draws, terrainGroup, terrainDecoGroups, r.x, r.y, yMin, yMax,
                         width, height) :
                 r \in {WalkerStep(g, draws, terrainGroup, terrainDecoGroups, currentX,
                                   currentY, yMin, yMax, height)}})

\* The walker's start: currentX = 2, the row range of the group's alignment and
\* the middle row of the range.
WalkerStart(terrainGroup, height) ==
    LET isTop == "top" \in Alignments(terrainGroup)
        isBottom == "bottom" \in Alignments(terrainGroup)
        yMin == IF ~isTop /\ isBottom THEN FloorDiv(height, 2) ELSE 4
        yMax == IF isTop /\ ~isBottom THEN FloorDiv(height, 2) ELSE height - 4
    IN  [x |-> 2, y |-> FloorDiv(yMin + yMax, 2), yMin |-> yMin, yMax |-> yMax]

\* A variant of the walker that ignores the group's alignment: every group
\* walks the rows 4 .. height-4.
TerrainWalkerUnaligned(g, draws, terrainGroup, terrainDecoGroups, width, height) ==
    WalkerLoop(g, draws, terrainGroup, terrainDecoGroups, 2, FloorDiv(height, 2),
               4, height - 4, width, height)

\* The body of terrainGroups.forEach: one walker from x = 2.
TerrainWalker(g, draws, terrainGroup, terrainDecoGroups, width, height) ==
    LET w == WalkerStart(terrainGroup, height)
    IN  WalkerLoop(g, draws, terrainGroup, terrainDecoGroups, w.x, w.y, w.yMin, w.yMax,
                   width, height)

RECURSIVE TerrainPass(_, _, _, _, _, _)
TerrainPass(g, draws, terrainGroups, terrainDecoGroups, width, height) ==
    IF Len(terrainGroups) = 0 \/ g.i < 0 THEN g
    ELSE TheOne({TerrainPass(walked, draws, Tail(terrainGroups), terrainDecoGroups,
                             width, height) :
                    walked \in {TerrainWalker(g, draws, Head(terrainGroups),
                                              terrainDecoGroups, width, height)}})

\* decoGroups.filter(...) of the top and of the bottom scatter
IsTopDeco(grp) ==
    \/ (grp.verticalAlignments # None /\ "top" \in grp.verticalAlignments[1])
    \/ (grp.verticalAlignments = None
          /\ (grp.verticalAlignment = None \/ grp.verticalAlignment = Some("top")))

IsBottomDeco(grp) ==
    \/ (grp.verticalAlignments # None /\ "bottom" \in grp.verticalAlignments[1])
    \/ grp.verticalAlignment = Some("bottom")

maxAttempts == 10

\* A variant of the attempt loop's test that lets one more attempt in.
AttemptsLeftInclusive(attempts) == attempts <= maxAttempts

\* attempts < maxAttempts
AttemptsLeft(attempts) == attempts < maxAttempts

\* One candidate position of the attempt loop, and whether an instance of the
\* group placed before is nearer than minDist to it.
SpotAttempt(draws, i, placedItems, minDist, half, width, height) ==
    LET ncx == RandomInt(draws, i, width - 2)
        ncy == IF half = "top"
               THEN FloorDiv(Random(draws, i + 1) * height, 2 * RandomScale)
               ELSE FloorDiv(height, 2)
                      + FloorDiv(Random(draws, i + 1) * (height - 4), 2 * RandomScale)
        \* Math.sqrt(dx^2 + dy^2) < minDist
        tooClose == \E n \in 1..Len(placedItems) :
                       (ncx - placedItems[n].cx) * (ncx - placedItems[n].cx)
                         + (ncy - placedItems[n].cy) * (ncy - placedItems[n].cy)
                       < minDist * minDist
    IN  [cx |-> ncx, cy |-> ncy, tooClose |-> tooClose]

\* The while (attempts < maxAttempts) loop: up to ten candidate positions, each
\* rejected when nearer than minDist to an instance of the group placed before.
RECURSIVE FindSpot(_, _, _, _, _, _, _, _, _, _)
FindSpot(draws, i, attempts, cx, cy, placedItems, minDist, half, width, height) ==
    IF ~AttemptsLeft(attempts) THEN [i |-> i, cx |-> cx, cy |-> cy, attempts |-> attempts]
    ELSE
      LET Tried(a) ==
              IF ~a.tooClose
              THEN [i |-> i + 2, cx |-> a.cx, cy |-> a.cy, attempts |-> attempts]
              ELSE FindSpot(draws, i + 2, attempts + 1, a.cx, a.cy, placedItems, minDist,
                            half, width, height)
      IN  TheOne({Tried(a) : a \in {SpotAttempt(draws, i, placedItems, minDist, half,
                                                width, height)}})

\* tempPlacement as a mapping: the cells of the (possibly mirrored) pattern at
\* (cx, cy) with the tile each is to receive.
TempPlacement(decoData, decoW, shouldFlip, cx, cy) ==
    LET Target(k) == << cx + (IF shouldFlip THEN decoW - 1 - k[1] ELSE k[1]), cy + k[2] >>
        targets == {Target(k) : k \in DOMAIN decoData}
        Source(c) == CHOOSE k \in DOMAIN decoData : Target(k) = c
    IN  [c \in targets |-> [tileId |-> decoData[Source(c)].tileId, flipX |-> shouldFlip]]

\* A variant that writes the cells that are free and leaves out the occupied ones.
CommitPlacementCellwise(bg, main, placement) ==
    LET free == {c \in DOMAIN placement : c \notin DOMAIN bg /\ c \notin DOMAIN main}
    IN  [bg |-> [c \in (DOMAIN bg) \cup free |-> IF c \in free THEN placement[c] ELSE bg[c]],
         placed |-> free = DOMAIN placement]

\* A variant that tests the background layer only.
CommitPlacementIgnoringTerrain(bg, main, placement) ==
    LET overlaps == \E c \in DOMAIN placement : c \in DOMAIN bg
    IN  IF overlaps THEN [bg |-> bg, placed |-> FALSE]
        ELSE [bg |-> [c \in (DOMAIN bg) \cup (DOMAIN placement) |->
                         IF c \in DOMAIN placement THEN placement[c] ELSE bg[c]],
              placed |-> TRUE]

\* The overlap test and the commit: if (!overlaps) { tempPlacement.forEach(write);
\* placedItems.push } -- placed tells whether the instance was committed.
CommitPlacement(bg, main, placement) ==
    LET overlaps == \E c \in DOMAIN placement : c \in DOMAIN bg \/ c \in DOMAIN main
    IN  IF overlaps THEN [bg |-> bg, placed |-> FALSE]
        ELSE [bg |-> [c \in (DOMAIN bg) \cup (DOMAIN placement) |->
                         IF c \in DOMAIN placement THEN placement[c] ELSE bg[c]],
              placed |-> TRUE]

\* Math.max(3, 15 - density)
minDist(deco) == MaxOfTwo(3, 15 - Density(deco))

\* The rest of one instance after the attempt loop: skipped when the attempts
\* ran out, otherwise sized, expanded, mirrored, tested and committed.
PlaceInstance(g, draws, deco, spot, placedItems, half) ==
    IF spot.attempts >= maxAttempts
    THEN [g |-> [g EXCEPT !.i = spot.i], placedItems |-> placedItems]
    ELSE
      LET decoW == IF ~deco.canResize THEN Len(deco.preview)
                   ELSE RandomInt(draws, spot.i, 3) + 2
          i1 == IF deco.canResize THEN spot.i + 1 ELSE spot.i
          decoData == generatePlatformData(decoW, deco).data
          shouldFlip == deco.canFlip /\ Random(draws, i1) * 2 < RandomScale
          i2 == IF deco.canFlip THEN i1 + 1 ELSE i1
          placement == TempPlacement(decoData, decoW, shouldFlip, spot.cx, spot.cy)
          r == CommitPlacement(g.bg, g.main, placement)
          g1 == [g EXCEPT !.bg = r.bg,
                          !.i = i2,
                          !.placements = Append(@, [group |-> deco.id,
                                                    half |-> half,
                                                    placement |-> placement,
                                                    bgBefore |-> g.bg,
                                                    bgAfter |-> r.bg,
                                                    placed |-> r.placed,
                                                    cx |-> spot.cx,
                                                    cy |-> spot.cy,
                                                    density |-> Density(deco)])]
      IN  [g |-> g1,
           placedItems |-> IF r.placed
                           THEN Append(placedItems, [cx |-> spot.cx, cy |-> spot.cy])
                           ELSE placedItems]

\* for (let i = 0; i < count; i++) { ... } of one decoration group in one half
RECURSIVE ScatterLoop(_, _, _, _, _, _, _, _, _)
ScatterLoop(g, draws, deco, n, count, placedItems, half, width, height) ==
    IF n >= count \/ g.i < 0 THEN g
    ELSE
      LET Placed(spot) == PlaceInstance(g, draws, deco, spot, placedItems, half)
          r == TheOne({Placed(spot) : spot \in {FindSpot(draws, g.i, 0, 0, 0, placedItems,
                                                         minDist(deco), half, width, height)}})
      IN  TheOne({ScatterLoop(next.g, draws, deco, n + 1, count, next.placedItems, half,
                              width, height) : next \in {r}})

\* Math.floor((width * height * (density / 5)) / 100), / 150 for the bottom half
ScatterCount(deco, half, width, height) ==
    FloorDiv(width * height * Density(deco), IF half = "top" THEN 500 ELSE 750)

\* topDecos.forEach / bottomDecos.forEach
RECURSIVE ScatterPass(_, _, _, _, _, _)
ScatterPass(g, draws, decos, half, width, height) ==
    IF Len(decos) = 0 \/ g.i < 0 THEN g
    ELSE TheOne({ScatterPass(scattered, draws, Tail(decos), half, width, height) :
                    scattered \in {ScatterLoop(g, draws, Head(decos), 0,
                                               ScatterCount(Head(decos), half, width, height),
                                               << >>, half, width, height)}})

\* The three layers, before any tile is generated.
LevelLayer(id, name, opacity, data) ==
    [id |-> id, name |-> name, visible |-> TRUE, opacity |-> opacity, data |-> data]

\* A variant that falls back on the first group of any role.
TerrainGroupsOrFirst(allGroups) ==
    IF FilterRole(allGroups, "terrain") = << >> /\ allGroups # << >>
    THEN << allGroups[1] >>
    ELSE FilterRole(allGroups, "terrain")

\* const terrainGroups = Object.values(allGroups).filter(g => g.role === "terrain")
TerrainGroups(allGroups) == FilterRole(allGroups, "terrain")

\* The generator's working state before the first pass: three empty layers, no
\* draw taken, nothing logged.
EmptyLevelState ==
    [main |-> EmptyData, bg |-> EmptyData, coll |-> EmptyData, i |-> 0,
     placements |-> << >>, terrainLog |-> << >>, walk |-> << >>]

\* The generator's working state after both passes.
GenerateLevelState(width, height, allGroups, draws) ==
    LET terrainGroups == TerrainGroups(allGroups)
        decoGroups == FilterRole(allGroups, "decoration")
        terrainDecoGroups == FilterRole(allGroups, "terrain-decoration")
        g0 == EmptyLevelState
        g1 == TerrainPass(g0, draws, terrainGroups, terrainDecoGroups, width, height)
        Top(walked) ==
            ScatterPass(walked, draws, SelectSeq(decoGroups, IsTopDeco), "top", width, height)
        Bottom(topped) ==
            ScatterPass(topped, draws, SelectSeq(decoGroups, IsBottomDeco), "bottom",
                        width, height)
    IN  TheOne({Bottom(g2) : g2 \in {TheOne({Top(walked) : walked \in {g1}})}})

\* A variant that returns the terrain layer first.
LevelOfTerrainFirst(g) ==
    << LevelLayer("layer-1", "Terrain", 100, g.main),
       LevelLayer("layer-bg", "Background", 100, g.bg),
       LevelLayer("layer-collision", "Collision", 50, g.coll) >>

\* return [backgroundLayer, collisionLayer, mainLayer]
LevelOf(g) ==
    << LevelLayer("layer-bg", "Background", 100, g.bg),
       LevelLayer("layer-collision", "Collision", 50, g.coll),
       LevelLayer("layer-1", "Terrain", 100, g.main) >>

generateProceduralLevel(width, height, allGroups, draws) ==
    LevelOf(GenerateLevelState(width, height, allGroups, draws))

(***************************************************************************)
(* generateProceduralLevel as a function: the size, the selected groups    *)
(* and the stream of draws are drawn from bounded sets and the generator   *)
(* is applied to them.                                                     *)
(***************************************************************************)
MaxLevelWidth == 10

MaxLevelHeight == 10

DrawPeriod == 4

MaxGenerations == 1

\* A one-tile terrain decoration, saved from a 1x1 palette selection.
Flower ==
    [id |-> "flower", role |-> "terrain-decoration",
     left |-> << 20 >>, middle |-> << >>, right |-> << 20 >>, single |-> << 20 >>,
     height |-> 1, preview |-> << 20 >>, canResize |-> FALSE, canFlip |-> TRUE,
     density |-> 10, verticalAlignments |-> Some({"top", "bottom"}),
     verticalAlignment |-> None]

\* A resizable decoration for the upper half, saved from a 3x1 palette selection.
Cloud ==
    [id |-> "cloud", role |-> "decoration",
     left |-> << 30 >>, middle |-> << << 31 >> >>, right |-> << 32 >>, single |-> << 31 >>,
     height |-> 1, preview |-> << 30, 31, 32 >>, canResize |-> TRUE, canFlip |-> FALSE,
     density |-> 10, verticalAlignments |-> Some({"top"}), verticalAlignment |-> None]

\* A fixed-size, flippable decoration for both halves, saved from a 2x2 palette
\* selection.
Bush ==
    [id |-> "bush", role |-> "decoration",
     left |-> << 40, 48 >>, middle |-> << >>, right |-> << 41, 49 >>, single |-> << 40, 48 >>,
     height |-> 2, preview |-> << 40, 41 >>, canResize |-> FALSE, canFlip |-> TRUE,
     density |-> 10, verticalAlignments |-> Some({"top", "bottom"}),
     verticalAlignment |-> None]

GroupCatalogue == << Grass, Flower, Cloud, Bush >>

\* The subsequence of s at the positions in P.
RECURSIVE Pick(_, _, _)
Pick(s, P, n) ==
    IF n > Len(s) THEN << >>
    ELSE (IF n \in P THEN << s[n] >> ELSE << >>) \o Pick(s, P, n + 1)

\* filteredGroups for every selection of ids, in the registry's order.
GroupSelections == { Pick(GroupCatalogue, P, 1) : P \in SUBSET (1..Len(GroupCatalogue)) }

\* The values of Math.random() the streams are made of: 0, 0.45, 0.7 and 0.95.
DrawValues == {0, 45, 70, 95}

DrawStreams == [1..DrawPeriod -> DrawValues]

LevelSizes == { << 2, 1 >>, << MaxLevelWidth - 2, MaxLevelHeight - 4 >>,
                << MaxLevelWidth, MaxLevelHeight >> }

InitLevel ==
    /\ \E size \in LevelSizes, groups \in GroupSelections, draws \in DrawStreams :
          level = [width |-> size[1], height |-> size[2], groups |-> groups,
                   draws |-> draws, done |-> FALSE]
    /\ activeTileGroup = Null
    /\ expansion = Null
    /\ fillRun = Null
    /\ InitRegistry
    /\ store = [a \in {1} |-> INITIAL_LAYERS]
    /\ past = << >>
    /\ future = << >>
    /\ layers = 1
    /\ customBrush = Null
    /\ paletteSelection = InitialPaletteSelection
    /\ mapSize = [width |-> MapWidth, height |-> MapHeight]
    /\ currentTool = "brush"
    /\ stepLimit = MaxGenerations
    /\ activeLayerIndex = 0
    /\ isFlipped = FALSE
    /\ selection = Null
    /\ clipboard = Null
    /\ isMouseDown = FALSE
    /\ isPanning = FALSE
    /\ isSpacePressed = FALSE
    /\ lastPaintedTiles = {}
    /\ selectionStart = Null
    /\ obs = InitObs
    /\ stroke = NoStroke
    /\ steps = 0

\* generateProceduralLevel(width, height, groups, tilesPerRow) under the draws
GenerateLevel ==
    /\ steps < stepLimit
    /\ steps' = steps + 1
    /\ level' = [width |-> level.width, height |-> level.height, groups |-> level.groups,
                 draws |-> level.draws, done |-> TRUE,
                 g |-> GenerateLevelState(level.width, level.height, level.groups,
                                          level.draws),
                 out |-> generateProceduralLevel(level.width, level.height, level.groups,
                                                 level.draws)]
    /\ UNCHANGED << store, layers, past, future, mapSize, activeLayerIndex, currentTool,
                    isFlipped, paletteSelection, customBrush, selection, clipboard,
                    isMouseDown, isPanning, isSpacePressed, lastPaintedTiles,
                    selectionStart, obs, stroke, stepLimit, activeTileGroup, expansion,
                    fillRun, tileGroups,
                    showGenModal, selectedIds >>

NextLevel == GenerateLevel

SpecLevel == InitLevel /\ [][NextLevel]_vars

(***************************************************************************)
(* Properties of generateProceduralLevel (SpecLevel).                      *)
(***************************************************************************)
Background == level.out[1].data

Collision == level.out[2].data

Terrain == level.out[3].data

Placements == level.g.placements

Committed == {n \in 1..Len(Placements) : Placements[n].placed}

Rejected == {n \in 1..Len(Placements) : ~Placements[n].placed}

\* C16: for every width, height and selection of groups, the empty one
\* included, the generator returns exactly three layers, in the order
\* background, collision, terrain.
C16_ThreeLayersInOrder ==
    level.done =>
        /\ Len(level.out) = 3
        /\ [n \in 1..3 |-> level.out[n].id] = << "layer-bg", "layer-collision", "layer-1" >>
        /\ [n \in 1..3 |-> level.out[n].name] = << "Background", "Collision", "Terrain" >>
        /\ Background = level.g.bg
        /\ Collision = level.g.coll
        /\ Terrain = level.g.main

\* A level with tiles in all three layers was returned.
C16_Witness ==
    /\ level.done
    /\ Background # EmptyData
    /\ Collision # EmptyData
    /\ Terrain # EmptyData

\* A level was generated from the empty selection.
C16_EmptySelectionWitness ==
    /\ level.done
    /\ level.groups = << >>
    /\ level.width = MaxLevelWidth

\* C17: in a returned level no coordinate holds a tile both in the background
\* layer and in the terrain or the collision layer, and no two committed
\* scatter instances share a background cell.
C17_BackgroundDisjoint ==
    level.done =>
        /\ (DOMAIN Background) \cap ((DOMAIN Terrain) \cup (DOMAIN Collision)) = {}
        /\ \A n, k \in Committed :
               n # k => (DOMAIN Placements[n].placement)
                            \cap (DOMAIN Placements[k].placement) = {}

\* Two instances were committed and one was rejected for touching the terrain.
C17_Witness ==
    /\ level.done
    /\ Cardinality(Committed) >= 2
    /\ \E n \in Rejected :
           (DOMAIN Placements[n].placement) \cap (DOMAIN Terrain) # {}

\* An instance was rejected for touching an instance committed before it.
C17_BackgroundWitness ==
    /\ level.done
    /\ \E n \in Rejected :
           (DOMAIN Placements[n].placement) \cap (DOMAIN Placements[n].bgBefore) # {}

\* C18: a scatter instance is all-or-nothing: when a cell of its expanded
\* (possibly mirrored) pattern is occupied in the background or the terrain
\* layer nothing is written, otherwise every cell of the pattern is written.
C18_AllOrNothing ==
    level.done =>
        \A n \in 1..Len(Placements) :
            LET p == Placements[n]
                cells == DOMAIN p.placement
                occupied == \E c \in cells : c \in DOMAIN p.bgBefore \/ c \in DOMAIN Terrain
            IN  /\ occupied => p.bgAfter = p.bgBefore
                /\ ~occupied =>
                       /\ DOMAIN p.bgAfter = (DOMAIN p.bgBefore) \cup cells
                       /\ \A c \in cells : p.bgAfter[c] = p.placement[c]
                       /\ \A c \in DOMAIN p.bgBefore : p.bgAfter[c] = p.bgBefore[c]
                /\ n < Len(Placements) => Placements[n + 1].bgBefore = p.bgAfter
                /\ n = Len(Placements) => Background = p.bgAfter
                /\ n = 1 => p.bgBefore = EmptyData

\* An instance with some cells occupied and some free was rejected, and a
\* mirrored instance of several cells was committed.
C18_Witness ==
    /\ level.done
    /\ \E n \in Rejected :
           LET cells == DOMAIN Placements[n].placement
               taken == {c \in cells : c \in DOMAIN Placements[n].bgBefore
                                           \/ c \in DOMAIN Terrain}
           IN  taken # {} /\ taken # cells
    /\ \E n \in Committed :
           /\ Cardinality(DOMAIN Placements[n].placement) >= 2
           /\ \A c \in DOMAIN Placements[n].placement : Placements[n].placement[c].flipX

MaxLayers == 4

MaxLayerSteps == 4

\* name = `${baseName} (${counter})`
Suffixed(baseName, counter) == baseName \o " (" \o ToString(counter) \o ")"

\* let name = baseName; let counter = 1;
\* while (taken.some(n => n === name)) { name = `${baseName} (${counter})`; counter++ }
RECURSIVE UniqueName(_, _, _, _)
UniqueName(taken, baseName, name, counter) ==
    IF name \in taken THEN UniqueName(taken, baseName, Suffixed(baseName, counter), counter + 1)
    ELSE name

\* A variant of addLayer without the uniqueness loop: the layer gets baseName.
addLayerUnchecked(L, baseName, newId) ==
    Append(L, [id |-> newId, name |-> baseName, visible |-> TRUE, opacity |-> 100,
               data |-> EmptyData])

\* The recipe of addLayer: the new layer is pushed with a name no layer has.
addLayer(L, baseName, newId) ==
    Append(L, [id |-> newId,
               name |-> UniqueName({L[n].name : n \in 1..Len(L)}, baseName, baseName, 1),
               visible |-> TRUE, opacity |-> 100, data |-> EmptyData])

\* draft.splice(index, 1)
Splice(L, index) == [n \in 1..(Len(L) - 1) |-> IF n <= index THEN L[n] ELSE L[n + 1]]

\* A variant without the guard on the last layer.
removeLayerUnguarded(h, L, index) ==
    [h |-> saveCheckpoint(h), L |-> Splice(L, index), ops |-> << "saveCheckpoint", "setLayers" >>]

\* removeLayer(index): h is the history, L the current layers; the result has the
\* history and the layers it leaves and the calls it made.
removeLayer(h, L, index) ==
    IF Len(L) <= 1 THEN [h |-> h, L |-> L, ops |-> << >>]
    ELSE [h |-> saveCheckpoint(h), L |-> Splice(L, index),
          ops |-> << "saveCheckpoint", "setLayers" >>]

\* A variant that compares with every layer, the renamed one included.
renameLayerAgainstAll(L, index, newName) ==
    [L EXCEPT ![index + 1].name =
        UniqueName({L[n].name : n \in 1..Len(L)}, newName, newName, 1)]

\* The recipe of renameLayer(index, newName)
renameLayer(L, index, newName) ==
    [L EXCEPT ![index + 1].name =
        UniqueName({L[n].name : n \in (1..Len(L)) \ {index + 1}}, newName, newName, 1)]

\* What the user types into the prompt of "add layer" ("" gives "Layer").
PromptNames == {"", "Layer", "Ground"}

\* What the user types into a layer's name field (trimmed, not empty).
EditNames == {"Ground", "Ground (1)", "Sky"}

\* crypto.randomUUID()
Uuids == {"uuid-a", "uuid-b"}

\* onAddLayer, the prompt answered with name
AddLayer(name, newId) ==
    /\ steps < stepLimit
    /\ steps' = steps + 1
    /\ UNCHANGED fixed
    /\ Len(store[layers]) < MaxLayers
    /\ Commit(saveCheckpoint(Hist),
              addLayer(store[layers], IF name = "" THEN "Layer" ELSE name, newId))
    /\ activeLayerIndex' = Len(store[layers])
    /\ Observe("addLayer", << name >>, << "saveCheckpoint", "setLayers" >>)
    /\ UNCHANGED << mapSize, currentTool, isFlipped, paletteSelection, customBrush,
                    selection, clipboard, isMouseDown, isPanning, isSpacePressed,
                    lastPaintedTiles, selectionStart, stroke >>

\* onRemoveLayer(index), the confirmation accepted
RemoveLayer(index) ==
    /\ steps < stepLimit
    /\ steps' = steps + 1
    /\ UNCHANGED fixed
    /\ index \in 0..(Len(store[layers]) - 1)
    /\ LET r == removeLayer(Hist, store[layers], index) IN
         /\ Commit(r.h, r.L)
         /\ Observe("removeLayer", << index >>, r.ops)
    /\ activeLayerIndex' = IF activeLayerIndex >= index
                           THEN MaxOfTwo(0, activeLayerIndex - 1)
                           ELSE activeLayerIndex
    /\ UNCHANGED << mapSize, currentTool, isFlipped, paletteSelection, customBrush,
                    selection, clipboard, isMouseDown, isPanning, isSpacePressed,
                    lastPaintedTiles, selectionStart, stroke >>

\* onRenameLayer(index, newName)
RenameLayer(index, newName) ==
    /\ steps < stepLimit
    /\ steps' = steps + 1
    /\ UNCHANGED fixed
    /\ index \in 0..(Len(store[layers]) - 1)
    /\ Commit(Hist, renameLayer(store[layers], index, newName))
    /\ Observe("renameLayer", << index, newName >>, << "setLayers" >>)
    /\ UNCHANGED << mapSize, activeLayerIndex, currentTool, isFlipped, paletteSelection,
                    customBrush, selection, clipboard, isMouseDown, isPanning,
                    isSpacePressed, lastPaintedTiles, selectionStart, stroke >>

\* The recipe of onMoveLayer: the layer at index and its neighbour in the
\* direction change places when the neighbour exists ('up' is the higher index).
moveLayer(L, index, direction) ==
    LET targetIndex == IF direction = "up" THEN index + 1 ELSE index - 1
    IN  IF targetIndex >= 0 /\ targetIndex < Len(L)
        THEN [L EXCEPT ![targetIndex + 1] = L[index + 1], ![index + 1] = L[targetIndex + 1]]
        ELSE L

\* onMoveLayer(index, direction)
MoveLayer(index, direction) ==
    /\ steps < stepLimit
    /\ steps' = steps + 1
    /\ UNCHANGED fixed
    /\ index \in 0..(Len(store[layers]) - 1)
    /\ Commit(Hist, moveLayer(store[layers], index, direction))
    /\ Observe("moveLayer", << index, direction >>, << "setLayers" >>)
    /\ LET targetIndex == IF direction = "up" THEN index + 1 ELSE index - 1
       IN  activeLayerIndex' =
               IF targetIndex >= 0 /\ targetIndex < Len(store[layers])
               THEN IF activeLayerIndex = index THEN targetIndex
                    ELSE IF activeLayerIndex = targetIndex THEN index
                    ELSE activeLayerIndex
               ELSE activeLayerIndex
    /\ UNCHANGED << mapSize, currentTool, isFlipped, paletteSelection, customBrush,
                    selection, clipboard, isMouseDown, isPanning, isSpacePressed,
                    lastPaintedTiles, selectionStart, stroke >>

\* The group selections and draw streams tried in the editor.
GenerateSelections == { << >>, << Flower, Cloud >>, GroupCatalogue }

ConstantStreams == { [n \in 1..DrawPeriod |-> v] : v \in DrawValues }

\* handleFinalGenerate(selectedIds): filteredGroups are the selected groups
FinalGenerate(filteredGroups, draws) ==
    /\ steps < stepLimit
    /\ steps' = steps + 1
    /\ UNCHANGED fixed
    /\ Commit(saveCheckpoint(Hist),
              generateProceduralLevel(mapSize.width, mapSize.height, filteredGroups, draws))
    /\ activeLayerIndex' = 0
    /\ Observe("handleFinalGenerate", << Len(filteredGroups) >>,
               << "saveCheckpoint", "setLayers" >>)
    /\ UNCHANGED << mapSize, currentTool, isFlipped, paletteSelection, customBrush,
                    selection, clipboard, isMouseDown, isPanning, isSpacePressed,
                    lastPaintedTiles, selectionStart, stroke >>

\* The undo and redo keys.
HistoryKeyDownEvents == { Key("z", TRUE, FALSE), Key("z", TRUE, TRUE) }

HistoryKeyUpEvents == { Key("z", TRUE, FALSE), Key("Z", TRUE, TRUE), Key("y", TRUE, FALSE) }

InitLayers ==
    /\ store = [a \in {1} |-> INITIAL_LAYERS]
    /\ past = << >>
    /\ future = << >>
    /\ layers = 1
    /\ customBrush = Null
    /\ paletteSelection = InitialPaletteSelection
    /\ mapSize = [width |-> MapWidth, height |-> MapHeight]
    /\ currentTool = "brush"
    /\ stepLimit = MaxLayerSteps
    /\ InitEditor

NextLayers ==
    \/ \E name \in PromptNames, newId \in Uuids : AddLayer(name, newId)
    \/ \E index \in 0..(MaxLayers - 1) : RemoveLayer(index)
    \/ \E index \in 0..(MaxLayers - 1), newName \in EditNames : RenameLayer(index, newName)
    \/ \E index \in 0..(MaxLayers - 1), direction \in {"up", "down"} : MoveLayer(index, direction)
    \/ \E groups \in GenerateSelections, draws \in ConstantStreams : FinalGenerate(groups, draws)
    \/ \E e \in HistoryKeyDownEvents : KeyDown(e)
    \/ \E e \in HistoryKeyUpEvents : KeyUp(e)

SpecLayers == InitLayers /\ [][NextLayers]_vars

(***************************************************************************)
(* Properties of the layer panel (SpecLayers).                             *)
(***************************************************************************)
\* C14: removeLayer called while exactly one layer remains changes nothing (the
\* layers, the past stack and the future stack are what they were), and the
\* layer sequence holds at least one layer in every state reached through
\* addLayer, removeLayer, undo, redo and level generation.
C14_LastLayerStays ==
    /\ (obs.handler = "removeLayer" /\ Len(obs.pre.layers) = 1) =>
           /\ Snapshot = obs.pre
           /\ obs.ops = << >>
    /\ Len(store[layers]) >= 1

\* removeLayer was called on the only layer left, after the history had grown.
C14_Witness ==
    /\ obs.handler = "removeLayer"
    /\ Len(obs.pre.layers) = 1
    /\ Len(past) >= 2

\* An undo brought a removed layer back.
C14_UndoWitness ==
    /\ obs.handler = "keydown"
    /\ Called("performUndo")
    /\ Len(store[layers]) = 3
    /\ Len(obs.pre.layers) = 2

\* The name the layer gets: newName when no sibling has it, else newName with
\* the smallest suffix " (n)", n >= 1, that no sibling has.
ExpectedName(siblings, newName) ==
    IF newName \notin siblings THEN newName
    ELSE Suffixed(newName,
                  CHOOSE n \in 1..(Cardinality(siblings) + 1) :
                      /\ Suffixed(newName, n) \notin siblings
                      /\ \A k \in 1..(n - 1) : Suffixed(newName, k) \in siblings)

SiblingNames(L, index) == {L[n].name : n \in (1..Len(L)) \ {index + 1}}

\* C15: renameLayer(index, newName) changes nothing but the name of layer index;
\* that name becomes newName when no other layer has it, else newName + " (n)"
\* for the smallest n >= 1 no other layer has; afterwards it differs from every
\* other layer's name; renaming a layer to its own name leaves it unchanged.
C15_RenameKeepsNamesUnique ==
    obs.handler = "renameLayer" =>
        LET index == obs.input[1]
            newName == obs.input[2]
            before == obs.pre.layers
            after == store[layers]
            siblings == SiblingNames(before, index)
        IN /\ Len(after) = Len(before)
           /\ \A n \in 1..Len(before) :
                  /\ n # index + 1 => after[n] = before[n]
                  /\ after[n] = [before[n] EXCEPT !.name = after[n].name]
           /\ after[index + 1].name = ExpectedName(siblings, newName)
           /\ after[index + 1].name \notin SiblingNames(after, index)
           /\ newName = before[index + 1].name => after = before
           /\ Deref(store, past) = obs.pre.past
           /\ Deref(store, future) = obs.pre.future

\* A rename met two taken names and got the suffix " (2)".
C15_Witness ==
    /\ obs.handler = "renameLayer"
    /\ obs.input[2] = "Ground"
    /\ store[layers][obs.input[1] + 1].name = "Ground (2)"

\* A layer was renamed to the name it had.
C15_OwnNameWitness ==
    /\ obs.handler = "renameLayer"
    /\ obs.input[2] = obs.pre.layers[obs.input[1] + 1].name

(***************************************************************************)
(* The size of the history (SpecHistory).                                  *)
(***************************************************************************)
HistorySize == Len(past) + Len(future)

\* C23: performUndo and performRedo each leave past.length + future.length
\* unchanged, and in every reachable state past.length + future.length <= 50.
C23_HistorySizeKept ==
    /\ (Called("performUndo") \/ Called("performRedo")) =>
           HistorySize = Len(obs.pre.past) + Len(obs.pre.future)
    /\ HistorySize <= MaxHistory

\* A redo moved a snapshot back while the two stacks together held 50.
C23_Witness ==
    /\ Called("performRedo")
    /\ Len(obs.pre.future) > 0
    /\ Len(past) = Len(obs.pre.past) + 1
    /\ HistorySize = MaxHistory

\* An undo moved a snapshot while the two stacks together held 50.
C23_UndoWitness ==
    /\ Called("performUndo")
    /\ Len(obs.pre.past) > 0
    /\ Len(future) = Len(obs.pre.future) + 1
    /\ HistorySize = MaxHistory

(***************************************************************************)
(* The active layer (SpecLayers).                                          *)
(***************************************************************************)
\* C21: after any sequence of addLayer, removeLayer, move-layer, undo, redo
\* and level generation the active layer index refers to an existing layer:
\* 0 <= activeLayerIndex < number of layers.
C21_ActiveLayerExists ==
    /\ 0 <= activeLayerIndex
    /\ activeLayerIndex < Len(store[layers])

\* The steps that break it: a layer is added and made active, then the
\* addition is undone.
C21_AddThenUndo ==
    /\ obs.handler = "keydown"
    /\ Called("performUndo")
    /\ Len(obs.pre.layers) = 4
    /\ Len(store[layers]) = 3
    /\ activeLayerIndex = 3

(***************************************************************************)
(* The recipe of floodFill iteration by iteration: fillRun holds the       *)
(* recipe's locals (activeData, visited, queue, startTileId), its          *)
(* arguments, the position in the recipe (pc) and, as an observer, the     *)
(* cells written in the order of writing.                                  *)
(***************************************************************************)
\* A variant that leaves a cell outside the map on the stack.
FillStepKeepsOutside(f) ==
    LET c == Last(f.queue)
        key == << c[1], c[2] >>
    IN  IF key \in f.visited THEN [f EXCEPT !.queue = Front(f.queue)]
        ELSE IF ~InBounds(f.size, c[1], c[2]) THEN f
        ELSE IF TileIdAt(f.activeData, key) # f.startTileId
          THEN [f EXCEPT !.queue = Front(f.queue)]
        ELSE [f EXCEPT !.activeData = Put(@, key, [tileId |-> f.fillTileId, flipX |-> f.flipped]),
                       !.visited = @ \cup {key},
                       !.queue = Front(@) \o << << c[1] + 1, c[2] >>, << c[1] - 1, c[2] >>,
                                                << c[1], c[2] + 1 >>, << c[1], c[2] - 1 >> >>,
                       !.written = Append(@, key)]

\* One iteration of while (queue.length > 0) { ... }
FillStep(f) ==
    LET c == Last(f.queue)
        cx == c[1]
        cy == c[2]
        key == << cx, cy >>
    IN  IF key \in f.visited THEN [f EXCEPT !.queue = Front(f.queue)]
        ELSE IF ~InBounds(f.size, cx, cy) THEN [f EXCEPT !.queue = Front(f.queue)]
        ELSE IF TileIdAt(f.activeData, key) # f.startTileId
          THEN [f EXCEPT !.queue = Front(f.queue)]
        ELSE [f EXCEPT !.activeData = Put(@, key, [tileId |-> f.fillTileId, flipX |-> f.flipped]),
                       !.visited = @ \cup {key},
                       !.queue = Front(@) \o << << cx + 1, cy >>, << cx - 1, cy >>,
                                                << cx, cy + 1 >>, << cx, cy - 1 >> >>,
                       !.written = Append(@, key)]

\* The map sizes of the runs: the map of the grids and a narrower one, which
\* leaves tiles of the grid outside the map.
FillSizes == { [width |-> 1, height |-> FillHeight], [width |-> FillWidth, height |-> FillHeight] }

InitFillRun ==
    /\ \E grid \in FillGrids, start \in FillUniverse, size \in FillSizes :
          /\ store = [a \in {1} |-> FillLayers(grid)]
          /\ mapSize = size
          /\ fillRun = [pc |-> "start", start |-> start, size |-> size,
                        fillTileId |-> Tile9Selection.y * tilesPerRow + Tile9Selection.x,
                        flipped |-> FALSE, activeData |-> grid, startTileId |-> None,
                        visited |-> {}, queue |-> << >>, written |-> << >>]
    /\ layers = 1
    /\ past = << >>
    /\ future = << >>
    /\ isFlipped = FALSE
    /\ paletteSelection = Tile9Selection
    /\ customBrush = PaletteBrush(Tile9Selection)
    /\ currentTool = "fill"
    /\ stepLimit = MaxFills
    /\ activeLayerIndex = 1
    /\ selection = Null
    /\ clipboard = Null
    /\ isMouseDown = FALSE
    /\ isPanning = FALSE
    /\ isSpacePressed = FALSE
    /\ lastPaintedTiles = {}
    /\ selectionStart = Null
    /\ obs = InitObs
    /\ stroke = NoStroke
    /\ steps = 0
    /\ activeTileGroup = Null
    /\ expansion = Null
    /\ level = Null
    /\ InitRegistry

RunUnchanged ==
    UNCHANGED << store, layers, past, future, mapSize, activeLayerIndex, currentTool,
                 isFlipped, paletteSelection, customBrush, selection, clipboard,
                 isMouseDown, isPanning, isSpacePressed, lastPaintedTiles,
                 selectionStart, obs, stroke, steps, stepLimit, activeTileGroup,
                 expansion, level, tileGroups, showGenModal, selectedIds >>

\* const startTileId = activeData[startKey]?.tileId;
\* if (startTileId === fillTileId) return; ... const queue = [[startGridX, startGridY]]
FillEnter ==
    /\ fillRun.pc = "start"
    /\ LET startTileId == TileIdAt(fillRun.activeData, fillRun.start)
       IN  fillRun' = IF startTileId = Some(fillRun.fillTileId)
                      THEN [fillRun EXCEPT !.pc = "returned", !.startTileId = startTileId]
                      ELSE [fillRun EXCEPT !.pc = "loop", !.startTileId = startTileId,
                                           !.queue = << fillRun.start >>]
    /\ RunUnchanged

\* One iteration of the loop.
FillIterate ==
    /\ fillRun.pc = "loop"
    /\ Len(fillRun.queue) > 0
    /\ fillRun' = FillStep(fillRun)
    /\ RunUnchanged

\* The loop's test fails: the recipe returns.
FillExit ==
    /\ fillRun.pc = "loop"
    /\ Len(fillRun.queue) = 0
    /\ fillRun' = [fillRun EXCEPT !.pc = "returned"]
    /\ RunUnchanged

NextFillRun == FillEnter \/ FillIterate \/ FillExit

\* The recipe is sequential code: it keeps running until it returns.
SpecFillRun == InitFillRun /\ [][NextFillRun]_vars /\ WF_vars(NextFillRun)

\* C25: floodFill terminates for every map size, every start cell (inside or
\* outside the map) and every layer content: each cell is written at most
\* once, only cells inside the map are written, and the work stack
\* eventually becomes empty and the recipe returns.
C25_FillTerminates ==
    /\ [](\A i, j \in 1..Len(fillRun.written) :
              /\ fillRun.written[i] = fillRun.written[j] => i = j
              /\ InBounds(fillRun.size, fillRun.written[i][1], fillRun.written[i][2]))
    /\ <>(fillRun.pc = "returned" /\ fillRun.queue = << >>)

\* A run that wrote every cell of the map has returned.
C25_Witness ==
    /\ fillRun.pc = "returned"
    /\ Len(fillRun.written) = FillWidth * FillHeight
    /\ fillRun.queue = << >>

\* A run started outside the map has returned without a write.
C25_OutsideWitness ==
    /\ fillRun.pc = "returned"
    /\ ~InBounds(fillRun.size, fillRun.start[1], fillRun.start[2])
    /\ fillRun.startTileId = Some(5)
    /\ fillRun.written = << >>

\* The run's result is the result of the recipe taken as a function.
FillRunAgrees ==
    fillRun.pc = "returned" =>
        fillRun.activeData =
            ActiveData(floodFill(store[layers], activeLayerIndex, fillRun.start[1],
                                 fillRun.start[2], fillRun.fillTileId, fillRun.flipped,
                                 fillRun.size), activeLayerIndex)

(***************************************************************************)
(* The terrain pass with several terrain groups and terrain decorations    *)
(* of one and of two rows: generateProceduralLevel applied to selections   *)
(* of the groups below.                                                    *)
(***************************************************************************)
\* A second terrain group, two rows high, saved from a 3x2 palette selection.
Stone ==
    [id |-> "stone", role |-> "terrain",
     left |-> << 60, 68 >>, middle |-> << << 61, 69 >> >>, right |-> << 62, 70 >>,
     single |-> << 61, 69 >>,
     height |-> 2, preview |-> << 60, 61, 62 >>, canResize |-> TRUE, canFlip |-> FALSE,
     density |-> 10, verticalAlignments |-> Some({"top", "bottom"}),
     verticalAlignment |-> None]

\* A terrain decoration of two rows, saved from a 1x2 palette selection.
Vine ==
    [id |-> "vine", role |-> "terrain-decoration",
     left |-> << 24, 25 >>, middle |-> << >>, right |-> << 24, 25 >>, single |-> << 24, 25 >>,
     height |-> 2, preview |-> << 24 >>, canResize |-> FALSE, canFlip |-> FALSE,
     density |-> 10, verticalAlignments |-> Some({"top", "bottom"}),
     verticalAlignment |-> None]

TerrainCatalogue == << Grass, Stone, Flower, Vine >>

TerrainSelections == { Pick(TerrainCatalogue, P, 1) : P \in SUBSET (1..Len(TerrainCatalogue)) }

InitTerrain ==
    /\ \E size \in LevelSizes, groups \in TerrainSelections, draws \in DrawStreams :
          level = [width |-> size[1], height |-> size[2], groups |-> groups,
                   draws |-> draws, done |-> FALSE]
    /\ store = [a \in {1} |-> INITIAL_LAYERS]
    /\ past = << >>
    /\ future = << >>
    /\ layers = 1
    /\ customBrush = Null
    /\ paletteSelection = InitialPaletteSelection
    /\ mapSize = [width |-> MapWidth, height |-> MapHeight]
    /\ currentTool = "brush"
    /\ stepLimit = MaxGenerations
    /\ activeLayerIndex = 0
    /\ isFlipped = FALSE
    /\ selection = Null
    /\ clipboard = Null
    /\ isMouseDown = FALSE
    /\ isPanning = FALSE
    /\ isSpacePressed = FALSE
    /\ lastPaintedTiles = {}
    /\ selectionStart = Null
    /\ obs = InitObs
    /\ stroke = NoStroke
    /\ steps = 0
    /\ activeTileGroup = Null
    /\ expansion = Null
    /\ fillRun = Null
    /\ InitRegistry

SpecTerrain == InitTerrain /\ [][NextLevel]_vars

TerrainLog == level.g.terrainLog

Platforms == {n \in 1..Len(TerrainLog) : TerrainLog[n].kind = "platform"}

Decorations == {n \in 1..Len(TerrainLog) : TerrainLog[n].kind = "decoration"}

\* The cells of an entry of the log that were empty when it was applied.
FreeCells(e) == e.cells \ DOMAIN e.mainBefore

\* C26: a platform tile is written to a terrain-layer cell only if the cell is
\* still empty: no platform changes a cell that held a tile, so what one
\* terrain group's pass wrote is not changed by the platform of a later pass.
C26_PlatformFirstWriterWins ==
    level.done =>
        \A n \in Platforms :
            \A c \in DOMAIN TerrainLog[n].mainBefore :
                /\ c \in DOMAIN TerrainLog[n].mainAfter
                /\ TerrainLog[n].mainAfter[c] = TerrainLog[n].mainBefore[c]

\* The platform of the second terrain group met cells of the first group's
\* platform and wrote the rest of its cells.
C26_Witness ==
    /\ level.done
    /\ \E n, k \in Platforms :
          /\ k < n
          /\ TerrainLog[k].group = "grass"
          /\ TerrainLog[n].group = "stone"
          /\ TerrainLog[n].top = TerrainLog[k].top
          /\ TerrainLog[n].cells \cap FreeCells(TerrainLog[k]) # {}
          /\ FreeCells(TerrainLog[n]) # {}
          /\ DOMAIN TerrainLog[n].mainAfter = (DOMAIN TerrainLog[n].mainBefore) \cup TerrainLog[n].cells

\* C27: a terrain-decoration instance writes only into terrain-layer cells
\* that are empty when it writes: it never replaces a platform tile or the
\* tile of an earlier decoration.
C27_DecorationWritesEmptyCells ==
    level.done =>
        \A n \in Decorations :
            /\ TerrainLog[n].cells \cap DOMAIN TerrainLog[n].mainBefore = {}
            /\ \A c \in DOMAIN TerrainLog[n].mainBefore :
                   TerrainLog[n].mainAfter[c] = TerrainLog[n].mainBefore[c]

\* A one-row decoration replaced a tile of the terrain layer (no decoration
\* of two rows is among the groups).
C27_OneRowReplaces ==
    /\ level.done
    /\ \A n \in 1..Len(level.groups) : level.groups[n].id # "vine"
    /\ \E n \in Decorations :
          \E c \in DOMAIN TerrainLog[n].mainBefore :
              TerrainLog[n].mainAfter[c] # TerrainLog[n].mainBefore[c]

\* The rows an entry of the log wrote to.
RowsOf(e) == {c[2] : c \in e.cells}

\* C28: a terrain-decoration instance of a group of height h on a platform
\* whose top row is Y occupies exactly the rows Y-h .. Y-1 (those of them on
\* the map): its bottom row is one above the platform and it never occupies
\* the platform's own row.
C28_DecorationAbovePlatform ==
    level.done =>
        \A n \in Decorations :
            LET e == TerrainLog[n]
            IN  RowsOf(e) = {r \in (e.top - e.h)..(e.top - 1) : r >= 0 /\ r < level.height}

\* A decoration of two rows was written with its lower row in the platform's row.
C28_TwoRowsReachPlatform ==
    /\ level.done
    /\ \E n \in Decorations :
          /\ TerrainLog[n].h = 2
          /\ RowsOf(TerrainLog[n]) = {TerrainLog[n].top - 1, TerrainLog[n].top}

\* A decoration of one row was written in the row above its platform.
C28_OneRowWitness ==
    /\ level.done
    /\ \E n \in Decorations :
          /\ TerrainLog[n].h = 1
          /\ RowsOf(TerrainLog[n]) = {TerrainLog[n].top - 1}

\* C29: the collision layer's cells are exactly the cells a platform tile was
\* written to, each holding tile 0 unflipped; terrain decorations add no
\* collision cell; every collision cell has a tile in the terrain layer.
C29_CollisionIsPlatformCells ==
    level.done =>
        /\ DOMAIN Collision =
               UNION {FreeCells(TerrainLog[n]) : n \in Platforms}
        /\ \A c \in DOMAIN Collision : Collision[c] = [tileId |-> 0, flipX |-> FALSE]
        /\ \A n \in Decorations : TerrainLog[n].collAfter = TerrainLog[n].collBefore
        /\ DOMAIN Collision \subseteq DOMAIN Terrain

\* A level with platforms of two groups and decorations, one of them on a
\* cell without collision.
C29_Witness ==
    /\ level.done
    /\ \E n, k \in Platforms : TerrainLog[n].group # TerrainLog[k].group
    /\ Decorations # {}
    /\ Collision # EmptyData
    /\ \E c \in DOMAIN Terrain : c \notin DOMAIN Collision

(***************************************************************************)
(* The spacing of scatter instances (SpecLevel).                           *)
(***************************************************************************)
\* The square of the distance of the anchors of two instances.
AnchorDistance2(p, q) == (p.cx - q.cx) * (p.cx - q.cx) + (p.cy - q.cy) * (p.cy - q.cy)

\* max(3, 15 - density), squared
MinSpacing2(p) == MaxOfTwo(3, 15 - p.density) * MaxOfTwo(3, 15 - p.density)

\* C30: any two committed scatter instances of the same decoration group have
\* anchors at Euclidean distance at least max(3, 15 - density), also when the
\* group is in both the top and the bottom set.
C30_SameGroupSpacing ==
    level.done =>
        \A n, k \in Committed :
            (n # k /\ Placements[n].group = Placements[k].group) =>
                AnchorDistance2(Placements[n], Placements[k]) >= MinSpacing2(Placements[n])

\* Within one set the spacing is kept.
C30_SpacingWithinHalf ==
    level.done =>
        \A n, k \in Committed :
            (n # k /\ Placements[n].group = Placements[k].group
                   /\ Placements[n].half = Placements[k].half) =>
                AnchorDistance2(Placements[n], Placements[k]) >= MinSpacing2(Placements[n])

\* Two instances of one group were committed in one set.
C30_WithinHalfWitness ==
    /\ level.done
    /\ \E n, k \in Committed :
          /\ n # k
          /\ Placements[n].group = Placements[k].group
          /\ Placements[n].half = Placements[k].half

\* Only the group of both sets is selected, and a top and a bottom instance of
\* it are closer than the spacing.
C30_AcrossHalves ==
    /\ level.done
    /\ Len(level.groups) = 1
    /\ \E n, k \in Committed :
          /\ Placements[n].half = "top"
          /\ Placements[k].half = "bottom"
          /\ Placements[n].group = Placements[k].group
          /\ AnchorDistance2(Placements[n], Placements[k]) < MinSpacing2(Placements[n])

(***************************************************************************)
(* The undo and redo keys pressed and released (SpecHistory).  A press is  *)
(* the keydown of Z with the modifiers held; the release of Z comes with   *)
(* the modifiers still held, or after them (ctrlKey false).                *)
(***************************************************************************)
ReleaseOfZ(o) == o.handler = "keyup" /\ ToLowerCase(o.input.key) = "z"

\* C24: one press-and-release of Ctrl+Z, in either release order, performs
\* exactly one undo step, and one press-and-release of Ctrl+Shift+Z exactly
\* one redo step.
C24_OneStepPerPress ==
    [][/\ (/\ obs.handler = "keydown"
           /\ obs.input = Key("z", TRUE, FALSE)
           /\ Len(obs.pre.past) > 0
           /\ ReleaseOfZ(obs'))
          => /\ Len(past') = Len(obs.pre.past) - 1
             /\ Len(future') = Len(obs.pre.future) + 1
       /\ (/\ obs.handler = "keydown"
           /\ obs.input = Key("Z", TRUE, TRUE)
           /\ Len(obs.pre.future) > 0
           /\ ReleaseOfZ(obs'))
          => /\ Len(future') = Len(obs.pre.future) - 1
             /\ Len(past') = Len(obs.pre.past) + 1]_vars

\* Ctrl+Z was pressed and Z released before Ctrl: two snapshots were undone.
C24_TwoUndos ==
    /\ obs.handler = "keyup"
    /\ obs.input = Key("z", TRUE, FALSE)
    /\ Called("performUndo")
    /\ obs.before = << "performUndo" >>
    /\ Len(obs.pre.past) > 0
    /\ Len(past) = Len(obs.pre.past) - 1

(***************************************************************************)
(* The smart brush: a TileGroup is selected in the Smart Components panel  *)
(* and dragged over the map.                                               *)
(***************************************************************************)
MaxSmartSteps == 4

SmartGroups == { Grass, Stone }

\* onSelectGroup(group)
SelectTileGroup(group) ==
    /\ steps < stepLimit
    /\ steps' = steps + 1
    /\ activeTileGroup' = group
    /\ currentTool' = "smartBrush"
    /\ Observe("onSelectGroup", << group.id >>, << >>)
    /\ UNCHANGED << store, layers, past, future, mapSize, activeLayerIndex, isFlipped,
                    paletteSelection, customBrush, selection, clipboard, isMouseDown,
                    isPanning, isSpacePressed, lastPaintedTiles, selectionStart, stroke,
                    stepLimit, expansion, level, fillRun, tileGroups,
                    showGenModal, selectedIds >>

InitSmart ==
    /\ store = [a \in {1} |-> INITIAL_LAYERS]
    /\ past = << >>
    /\ future = << >>
    /\ layers = 1
    /\ customBrush = Null
    /\ paletteSelection = InitialPaletteSelection
    /\ mapSize = [width |-> MapWidth, height |-> MapHeight]
    /\ currentTool = "brush"
    /\ stepLimit = MaxSmartSteps
    /\ InitEditor

NextSmart ==
    \/ \E group \in SmartGroups : SelectTileGroup(group)
    \/ \E x \in PointerXs, y \in PointerYs : MouseDown(x, y)
    \/ \E x \in PointerXs, y \in PointerYs : MouseMove(x, y)
    \/ MouseUp
    \/ \E e \in HistoryKeyDownEvents : KeyDown(e)

SpecSmart == InitSmart /\ [][NextSmart]_vars

\* C22: a smart-brush stroke (mousedown with the smartBrush tool, optional
\* drag, mouseup with an active TileGroup and a selection) pushes exactly one
\* checkpoint onto past, taken before the expanded pattern is written.
C22_SmartStrokeOneCheckpoint ==
    (obs.handler = "mouseup" /\ Called("setLayers") /\ currentTool = "smartBrush") =>
        stroke.checkpoints = 1

\* A stroke of two cells wrote the group's caps after two checkpoints: past
\* holds the layers from before the stroke twice.
C22_TwoCheckpoints ==
    /\ obs.handler = "mouseup"
    /\ Called("setLayers")
    /\ stroke.checkpoints = 2
    /\ Len(past) = 2
    /\ store[past[1]] = store[past[2]]
    /\ Cardinality(DOMAIN ActiveData(store[layers], activeLayerIndex)) = 2

(***************************************************************************)
(* Degenerate inputs of generatePlatformData (SpecPattern).                *)
(***************************************************************************)
\* The cells of column x in the expansion.
CellsOfColumn(x) == {c \in DOMAIN expansion.out.data : c[1] = x}

\* The interior columns 1 .. width-2, each taken from single.
RECURSIVE SingleCells(_, _, _)
SingleCells(x, width, group) ==
    IF x > width - 2 THEN EmptyData
    ELSE Join(ColumnCells(x, group.single, group.height), SingleCells(x + 1, width, group))

\* C37: for width >= 3 and a TileGroup whose middle list is empty the expansion
\* is defined and has column 0 from left, column width-1 from right and every
\* interior column x (1 <= x <= width-2) from single; only left, single and
\* right are read.
C37_EmptyMiddleUsesSingle ==
    (expansion # Null /\ expansion.width >= 3 /\ activeTileGroup.middle = << >>) =>
        LET w == expansion.width
            g == activeTileGroup
        IN  /\ expansion.out.data =
                  Join(ColumnCells(0, g.left, g.height),
                       Join(SingleCells(1, w, g), ColumnCells(w - 1, g.right, g.height)))
            /\ ReadFields = {"left", "single", "right"}

\* C37 witness: a width-4 expansion of a group with an empty middle list and
\* single = [5] at height 2: columns 1 and 2 hold tile 5 in both rows.
C37_Witness ==
    /\ Expanded(4)
    /\ activeTileGroup.middle = << >>
    /\ activeTileGroup.single = << 5 >>
    /\ activeTileGroup.height = 2
    /\ activeTileGroup.left = << 10 >>
    /\ \A x \in {1, 2} : \A y \in {0, 1} :
          /\ << x, y >> \in DOMAIN expansion.out.data
          /\ expansion.out.data[<< x, y >>].tileId = 5

\* The column array used for column x of a width-w expansion.
ColumnUsed(x, w, g) ==
    IF w = 1 THEN g.single
    ELSE IF x = 0 THEN g.left
    ELSE IF x = w - 1 THEN g.right
    ELSE IF Len(g.middle) > 0 THEN g.middle[((x - 1) % Len(g.middle)) + 1]
    ELSE g.single

\* C38: for width <= 0 the expansion is the empty mapping; for width >= 1 a
\* column whose array is empty has no tile, and every column whose array is
\* not empty has its tiles in all rows 0 .. height-1.
C38_DegenerateGeometry ==
    expansion # Null =>
        LET w == expansion.width
            g == activeTileGroup
        IN  /\ w <= 0 => expansion.out.data = EmptyData
            /\ \A x \in 0..(w - 1) :
                  IF ColumnUsed(x, w, g) = << >>
                  THEN CellsOfColumn(x) = {}
                  ELSE CellsOfColumn(x) = {<< x, y >> : y \in 0..(g.height - 1)}

\* C38 witness: a width-3 expansion whose right column is empty and whose left
\* and middle columns are not: columns 0 and 1 are there, column 2 is not.
C38_EmptyColumnWitness ==
    /\ Expanded(3)
    /\ activeTileGroup.right = << >>
    /\ activeTileGroup.left # << >>
    /\ Len(activeTileGroup.middle) > 0
    /\ activeTileGroup.middle[1] # << >>
    /\ CellsOfColumn(0) # {}
    /\ CellsOfColumn(1) # {}
    /\ CellsOfColumn(2) = {}

\* C38 witness for a negative width: the empty mapping.
C38_NegativeWidthWitness ==
    /\ expansion # Null
    /\ expansion.width < 0
    /\ expansion.out.data = EmptyData

(***************************************************************************)
(* Bounds of the generated level (SpecLevel, SpecTerrain).                 *)
(***************************************************************************)
\* The coordinates of the tiles of the three returned layers.
GeneratedCells == (DOMAIN Background) \cup (DOMAIN Collision) \cup (DOMAIN Terrain)

InsideLevel(c) == c[1] >= 0 /\ c[1] < level.width /\ c[2] >= 0 /\ c[2] < level.height

\* C31: every tile of the three layers returned by generateProceduralLevel(width,
\* height, ...) lies at (x, y) with 0 <= x < width and 0 <= y < height.
C31_GenerationClipped ==
    (level # Null /\ level.done) => \A c \in GeneratedCells : InsideLevel(c)

(***************************************************************************)
(* The terrain walker on wide maps: one terrain group of every density and *)
(* alignment (SpecWalker).                                                 *)
(***************************************************************************)
MaxWalkerWidth == 16

MaxWalkerHeight == 12

\* The density slider's range.
MinDensity == 1

MaxDensity == 10

\* verticalAlignments as the group dialog can save it (any subset of top and
\* bottom) or missing.
WalkerAlignments == {None} \cup {Some(A) : A \in SUBSET {"top", "bottom"}}

\* density 0 stands for a missing density.
WalkerGroups ==
    { [Grass EXCEPT !.density = d, !.verticalAlignments = a] :
          d \in {0} \cup (MinDensity..MaxDensity), a \in WalkerAlignments }

WalkerSizes ==
    { << MaxWalkerWidth - 4, MaxWalkerHeight - 5 >>,
      << MaxWalkerWidth, MaxWalkerHeight - 4 >>,
      << MaxWalkerWidth, MaxWalkerHeight - 3 >>,
      << MaxWalkerWidth, MaxWalkerHeight >> }

InitWalker ==
    /\ \E size \in WalkerSizes, grp \in WalkerGroups, draws \in DrawStreams :
          level = [width |-> size[1], height |-> size[2], groups |-> << grp >>,
                   draws |-> draws, done |-> FALSE]
    /\ store = [a \in {1} |-> INITIAL_LAYERS]
    /\ past = << >>
    /\ future = << >>
    /\ layers = 1
    /\ customBrush = Null
    /\ paletteSelection = InitialPaletteSelection
    /\ mapSize = [width |-> MapWidth, height |-> MapHeight]
    /\ currentTool = "brush"
    /\ stepLimit = MaxGenerations
    /\ activeLayerIndex = 0
    /\ isFlipped = FALSE
    /\ selection = Null
    /\ clipboard = Null
    /\ isMouseDown = FALSE
    /\ isPanning = FALSE
    /\ isSpacePressed = FALSE
    /\ lastPaintedTiles = {}
    /\ selectionStart = Null
    /\ obs = InitObs
    /\ stroke = NoStroke
    /\ steps = 0
    /\ activeTileGroup = Null
    /\ expansion = Null
    /\ fillRun = Null
    /\ InitRegistry

SpecWalker == InitWalker /\ [][NextLevel]_vars

\* The walker's iterations, in order: one entry for each platform.
Walk == level.g.walk

Generated == level # Null /\ level.done

\* The group of the generation with the given id.
GroupById(id) == level.groups[CHOOSE n \in DOMAIN level.groups : level.groups[n].id = id]

\* The vertical range of a terrain group on a map of the given height.
RangeMin(grp, height) ==
    IF "bottom" \in Alignments(grp) /\ "top" \notin Alignments(grp)
    THEN FloorDiv(height, 2) ELSE 4

RangeMax(grp, height) ==
    IF "top" \in Alignments(grp) /\ "bottom" \notin Alignments(grp)
    THEN FloorDiv(height, 2) ELSE height - 4

\* The first iteration of each group's walker.
FirstOfWalk(n) == n = 1 \/ Walk[n - 1].group # Walk[n].group

\* C32: on a map of height >= 8 the row of every platform of a terrain group
\* lies in the group's range ([4, floor(height/2)] for top only,
\* [floor(height/2), height-4] for bottom only, [4, height-4] otherwise), the
\* first platform is at the midpoint floor((yMin+yMax)/2), and the row is in
\* the range after every perturbation.
C32_WalkerRowInRange ==
    (Generated /\ level.height >= 8) =>
        /\ \A n \in Platforms :
              LET grp == GroupById(TerrainLog[n].group)
              IN  /\ TerrainLog[n].top >= RangeMin(grp, level.height)
                  /\ TerrainLog[n].top <= RangeMax(grp, level.height)
        /\ \A n \in DOMAIN Walk :
              LET grp == GroupById(Walk[n].group)
                  lo == RangeMin(grp, level.height)
                  hi == RangeMax(grp, level.height)
              IN  /\ FirstOfWalk(n) => Walk[n].y = FloorDiv(lo + hi, 2)
                  /\ Walk[n].nextY >= lo
                  /\ Walk[n].nextY <= hi

\* C32 witness: a top-only group on a map of height 12 whose walker places two
\* platforms on different rows, the second on the range's last row 6.
C32_TopOnlyWitness ==
    /\ Generated
    /\ level.height = 12
    /\ Alignments(level.groups[1]) = {"top"}
    /\ Len(Walk) >= 2
    /\ Walk[1].y = 5
    /\ Walk[2].y = 6
    /\ Walk[2].nextY = 6

\* C32 witness: a bottom-only group on a map of height 12 whose second platform
\* is on the range's first row 6.
C32_BottomOnlyWitness ==
    /\ Generated
    /\ level.height = 12
    /\ Alignments(level.groups[1]) = {"bottom"}
    /\ Len(Walk) >= 2
    /\ Walk[1].y = 7
    /\ Walk[2].y = 6

C33_MissingDensityWitness ==
    /\ Generated
    /\ level.groups[1].density = 0
    /\ \E n \in DOMAIN Walk : Walk[n].minGap = 3 /\ Walk[n].maxGap = 7 /\ Walk[n].gap = 7

(***************************************************************************)
(* generateProceduralLevel run loop iteration by loop iteration (SpecRun). *)
(* level.pc is the pass, level.queue the groups the pass has still to      *)
(* serve, level.walker the walker of the group at the head of the queue,   *)
(* level.scatter the instance loop of the group at the head of the queue.  *)
(***************************************************************************)
RunStreams == [1..DrawPeriod -> {0, 95}]

RunSizes == { << MaxLevelWidth, MaxLevelHeight >>, << MaxWalkerWidth, MaxWalkerHeight >> }

RunSelections ==
    { << >>, << Grass >>, << Cloud, Bush >>, << Grass, Stone, Flower, Bush >>, GroupCatalogue }

InitRun ==
    /\ \E size \in RunSizes, groups \in RunSelections, draws \in RunStreams :
          level = [width |-> size[1], height |-> size[2], groups |-> groups,
                   draws |-> draws, done |-> FALSE, pc |-> "start", queue |-> << >>,
                   g |-> EmptyLevelState, walker |-> Null, scatter |-> Null,
                   spot |-> Null, tried |-> 0, out |-> << >>]
    /\ store = [a \in {1} |-> INITIAL_LAYERS]
    /\ past = << >>
    /\ future = << >>
    /\ layers = 1
    /\ customBrush = Null
    /\ paletteSelection = InitialPaletteSelection
    /\ mapSize = [width |-> MapWidth, height |-> MapHeight]
    /\ currentTool = "brush"
    /\ stepLimit = MaxGenerations
    /\ activeLayerIndex = 0
    /\ isFlipped = FALSE
    /\ selection = Null
    /\ clipboard = Null
    /\ isMouseDown = FALSE
    /\ isPanning = FALSE
    /\ isSpacePressed = FALSE
    /\ lastPaintedTiles = {}
    /\ selectionStart = Null
    /\ obs = InitObs
    /\ stroke = NoStroke
    /\ steps = 0
    /\ activeTileGroup = Null
    /\ expansion = Null
    /\ fillRun = Null
    /\ InitRegistry

LevelRunUnchanged ==
    UNCHANGED << store, layers, past, future, mapSize, activeLayerIndex, currentTool,
                 isFlipped, paletteSelection, customBrush, selection, clipboard,
                 isMouseDown, isPanning, isSpacePressed, lastPaintedTiles,
                 selectionStart, obs, stroke, steps, stepLimit, activeTileGroup,
                 expansion, fillRun, tileGroups, showGenModal, selectedIds >>

\* The layers are created and the groups sorted by role.
RunStart ==
    /\ level.pc = "start"
    /\ level' = [level EXCEPT !.pc = "terrain", !.queue = TerrainGroups(level.groups)]
    /\ LevelRunUnchanged

\* terrainGroups.forEach enters the next group: the walker is set up.
WalkerEnter ==
    /\ level.pc = "terrain"
    /\ level.walker = Null
    /\ level.queue # << >>
    /\ level' = [level EXCEPT !.walker = WalkerStart(Head(level.queue), level.height)]
    /\ LevelRunUnchanged

\* One iteration of while (currentX < width - 5).
WalkerIterate ==
    /\ level.pc = "terrain"
    /\ level.walker # Null
    /\ WalkerContinues(level.walker.x, level.width)
    /\ LET w == level.walker
           r == WalkerStep(level.g, level.draws, Head(level.queue),
                           FilterRole(level.groups, "terrain-decoration"),
                           w.x, w.y, w.yMin, w.yMax, level.height)
       IN  level' = [level EXCEPT !.g = r.g, !.walker = [w EXCEPT !.x = r.x, !.y = r.y]]
    /\ LevelRunUnchanged

\* The loop test fails: the group's walker is done.
WalkerExit ==
    /\ level.pc = "terrain"
    /\ level.walker # Null
    /\ ~WalkerContinues(level.walker.x, level.width)
    /\ level' = [level EXCEPT !.walker = Null, !.queue = Tail(level.queue)]
    /\ LevelRunUnchanged

\* The decoration groups of the half that comes after pc.
NextHalfQueue(pc) ==
    IF pc = "terrain"
    THEN SelectSeq(FilterRole(level.groups, "decoration"), IsTopDeco)
    ELSE SelectSeq(FilterRole(level.groups, "decoration"), IsBottomDeco)

\* The pass has served all its groups: the top scatter follows the terrain
\* pass, the bottom scatter the top scatter, the return the bottom scatter.
PassExit ==
    /\ level.pc \in {"terrain", "top", "bottom"}
    /\ level.walker = Null
    /\ level.scatter = Null
    /\ level.queue = << >>
    /\ level' = IF level.pc = "bottom"
                THEN [level EXCEPT !.pc = "returned", !.done = TRUE, !.out = LevelOf(level.g)]
                ELSE [level EXCEPT !.pc = IF level.pc = "terrain" THEN "top" ELSE "bottom",
                                   !.queue = NextHalfQueue(level.pc)]
    /\ LevelRunUnchanged

\* topDecos.forEach / bottomDecos.forEach enters the next group: count and an
\* empty placedItems.
ScatterEnter ==
    /\ level.pc \in {"top", "bottom"}
    /\ level.scatter = Null
    /\ level.queue # << >>
    /\ level' = [level EXCEPT !.scatter =
                     [n |-> 0,
                      count |-> ScatterCount(Head(level.queue), level.pc, level.width,
                                             level.height),
                      placedItems |-> << >>]]
    /\ LevelRunUnchanged

\* for (let i = 0; i < count; i++) enters an instance: attempts = 0.
InstanceEnter ==
    /\ level.pc \in {"top", "bottom"}
    /\ level.scatter # Null
    /\ level.spot = Null
    /\ level.scatter.n < level.scatter.count
    /\ level' = [level EXCEPT !.spot = [i |-> level.g.i, cx |-> 0, cy |-> 0,
                                        attempts |-> 0, found |-> FALSE],
                              !.tried = 0]
    /\ LevelRunUnchanged

\* One iteration of while (attempts < maxAttempts): a candidate position, taken
\* (break) or counted as a failed attempt.
Attempt ==
    /\ level.pc \in {"top", "bottom"}
    /\ level.spot # Null
    /\ ~level.spot.found
    /\ AttemptsLeft(level.spot.attempts)
    /\ LET a == SpotAttempt(level.draws, level.spot.i, level.scatter.placedItems,
                            minDist(Head(level.queue)), level.pc, level.width,
                            level.height)
       IN  level' = [level EXCEPT !.spot = [i |-> level.spot.i + 2, cx |-> a.cx,
                                            cy |-> a.cy,
                                            attempts |-> IF a.tooClose
                                                         THEN level.spot.attempts + 1
                                                         ELSE level.spot.attempts,
                                            found |-> ~a.tooClose],
                                  !.tried = @ + 1]
    /\ LevelRunUnchanged

\* After the attempt loop: the instance is skipped or placed, and i++.
Place ==
    /\ level.pc \in {"top", "bottom"}
    /\ level.spot # Null
    /\ level.spot.found \/ ~AttemptsLeft(level.spot.attempts)
    /\ LET spot == [i |-> level.spot.i, cx |-> level.spot.cx, cy |-> level.spot.cy,
                    attempts |-> level.spot.attempts]
           r == PlaceInstance(level.g, level.draws, Head(level.queue), spot,
                              level.scatter.placedItems, level.pc)
       IN  level' = [level EXCEPT !.g = r.g, !.spot = Null,
                                  !.scatter = [@ EXCEPT !.n = @ + 1,
                                                        !.placedItems = r.placedItems]]
    /\ LevelRunUnchanged

\* i < count fails: the group's instances are done.
ScatterExit ==
    /\ level.pc \in {"top", "bottom"}
    /\ level.scatter # Null
    /\ level.spot = Null
    /\ ~(level.scatter.n < level.scatter.count)
    /\ level' = [level EXCEPT !.scatter = Null, !.queue = Tail(level.queue)]
    /\ LevelRunUnchanged

NextRun ==
    \/ RunStart
    \/ WalkerEnter
    \/ WalkerIterate
    \/ WalkerExit
    \/ PassExit
    \/ ScatterEnter
    \/ InstanceEnter
    \/ Attempt
    \/ Place
    \/ ScatterExit

\* The generator is sequential code: it keeps running until it returns.  This
\* is weak fairness of NextRun, WF_vars(NextRun), with its enabling condition
\* written out: a step of NextRun is possible exactly in the states in which
\* the generator has not returned.
SpecRun ==
    /\ InitRun
    /\ [][NextRun]_vars
    /\ ([]<>(level.pc = "returned") \/ []<><<NextRun>>_vars)

\* The run's result is the result of the generator taken as a function.
LevelRunAgrees ==
    level.done =>
        /\ level.g = GenerateLevelState(level.width, level.height, level.groups, level.draws)
        /\ level.out = generateProceduralLevel(level.width, level.height, level.groups,
                                               level.draws)

\* The walker iterations of the group with the given id.
WalkOf(id) == {n \in DOMAIN level.g.walk : level.g.walk[n].group = id}

\* C34: generateProceduralLevel returns for every width, height and group set:
\* each walker iteration moves currentX on by at least platWidth + minGap >= 4,
\* so a group's walker places no more platforms than fit between x = 2 and
\* width - 5 at a distance of 4; an instance of the scatter makes at most 10
\* placement attempts and a group has no more instances than its count.
C34_GeneratorTerminates ==
    /\ [](\A n \in DOMAIN level.g.walk :
              LET e == level.g.walk[n]
              IN  /\ e.nextX - e.x >= e.platWidth + e.minGap
                  /\ e.platWidth + e.minGap >= 4
                  /\ e.x < level.width - 5
                  /\ 2 + 4 * (Cardinality({k \in WalkOf(e.group) : k < n})) <= e.x)
    /\ [](level.tried <= 10)
    /\ [](level.scatter # Null => level.scatter.n <= level.scatter.count)
    /\ <>(level.pc = "returned" /\ level.done)

\* C34 witness: a run that returned after three platforms of one group and,
\* in the scatter, an instance given up after ten attempts.
C34_Witness ==
    /\ level.pc = "returned"
    /\ level.done
    /\ \E id \in {"grass", "stone"} : Cardinality(WalkOf(id)) = 3
    /\ Len(level.g.placements) > 0
    /\ level.tried = 10

\* C34 witness: an instance of the scatter is given up after ten attempts.
C34_TenAttemptsWitness ==
    /\ level.spot # Null
    /\ level.tried = 10
    /\ ~level.spot.found
    /\ level.spot.attempts = 10

(***************************************************************************)
(* The names of the current layers (SpecLayers).                           *)
(***************************************************************************)
LayerNames == [n \in 1..Len(store[layers]) |-> store[layers][n].name]

\* C39: from the initial three layers, after any sequence of addLayer,
\* renameLayer, removeLayer, move-layer, undo, redo and level generation, the
\* names of the current layers are pairwise distinct.
C39_LayerNamesDistinct ==
    \A i, j \in DOMAIN LayerNames : LayerNames[i] = LayerNames[j] => i = j

\* C39 witness: a layer was added under the taken name "Ground" and is the
\* fourth layer, named "Ground (1)".
C39_Witness ==
    /\ obs.handler = "addLayer"
    /\ obs.input = << "Ground" >>
    /\ Len(LayerNames) = 4
    /\ LayerNames[1] = "Ground"
    /\ LayerNames[4] = "Ground (1)"

\* C39 witness: a level was generated and a fourth layer added to its three.
C39_GeneratedWitness ==
    /\ obs.handler = "addLayer"
    /\ Len(LayerNames) = 4
    /\ LayerNames[3] = "Terrain"
    /\ LayerNames[4] = "Layer"
    /\ Len(past) = 2

(***************************************************************************)
(* The generation dialog (SpecDialog): the registry's allowInGeneration    *)
(* flags are edited, the dialog is opened, its check boxes are toggled and *)
(* Generate or Cancel is pressed.                                          *)
(***************************************************************************)
MaxDialogSteps == 5

\* A TileGroup with its allowInGeneration field: None when the field is
\* missing, Some(TRUE) or Some(FALSE) otherwise.
Registered(group, allow) == [allowInGeneration |-> allow] @@ group

\* A registry after the user saved three more components: the initial grass
\* (no allowInGeneration field) and a terrain decoration and two decorations
\* created with allowInGeneration: true.
DialogRegistry ==
    << Registered(Grass, None), Registered(Flower, Some(TRUE)),
       Registered(Cloud, Some(TRUE)), Registered(Bush, Some(TRUE)) >>

RegistryIds == {tileGroups[n].id : n \in DOMAIN tileGroups}

InitDialog ==
    /\ store = [a \in {1} |-> INITIAL_LAYERS]
    /\ past = << >>
    /\ future = << >>
    /\ layers = 1
    /\ customBrush = Null
    /\ paletteSelection = InitialPaletteSelection
    /\ mapSize = [width |-> MapWidth, height |-> MapHeight]
    /\ currentTool = "brush"
    /\ stepLimit = MaxDialogSteps
    /\ activeLayerIndex = 0
    /\ isFlipped = FALSE
    /\ selection = Null
    /\ clipboard = Null
    /\ isMouseDown = FALSE
    /\ isPanning = FALSE
    /\ isSpacePressed = FALSE
    /\ lastPaintedTiles = {}
    /\ selectionStart = Null
    /\ obs = InitObs
    /\ stroke = NoStroke
    /\ steps = 0
    /\ activeTileGroup = Null
    /\ expansion = Null
    /\ fillRun = Null
    /\ level = Null
    /\ tileGroups = DialogRegistry
    /\ showGenModal = FALSE
    /\ selectedIds = << >>

DialogRestUnchanged ==
    UNCHANGED << store, layers, past, future, mapSize, activeLayerIndex, currentTool,
                 isFlipped, paletteSelection, customBrush, selection, clipboard,
                 isMouseDown, isPanning, isSpacePressed, lastPaintedTiles,
                 selectionStart, obs, stroke, stepLimit, activeTileGroup, expansion,
                 level, fillRun >>

\* Object.assign(group, updates) of updateTileGroup(id, updates), the update
\* being the allowInGeneration check box of the component dialog.
updateTileGroup(groups, id, allow) ==
    [n \in DOMAIN groups |->
        IF groups[n].id = id THEN [groups[n] EXCEPT !.allowInGeneration = Some(allow)]
        ELSE groups[n]]

\* handleSaveGroup for an existing group, edited while the generation dialog
\* is closed.
SaveGroup(id, allow) ==
    /\ steps < stepLimit
    /\ steps' = steps + 1
    /\ ~showGenModal
    /\ id \in RegistryIds
    /\ tileGroups' = updateTileGroup(tileGroups, id, allow)
    /\ UNCHANGED << showGenModal, selectedIds >>
    /\ DialogRestUnchanged

\* handleGenerateLevel, and the dialog's effect on opening:
\* setSelectedIds(new Set(Object.keys(tileGroups)))
OpenDialog ==
    /\ steps < stepLimit
    /\ steps' = steps + 1
    /\ ~showGenModal
    /\ showGenModal' = TRUE
    /\ selectedIds' = [n \in DOMAIN tileGroups |-> tileGroups[n].id]
    /\ UNCHANGED tileGroups
    /\ DialogRestUnchanged

\* The groups the dialog shows a check box for:
\* (role === "terrain" || role === "decoration") && allowInGeneration !== false
Offered(group) ==
    /\ group.role \in {"terrain", "decoration"}
    /\ group.allowInGeneration # Some(FALSE)

OfferedIds == {tileGroups[n].id : n \in {k \in DOMAIN tileGroups : Offered(tileGroups[k])}}

\* toggleId(id): a Set keeps insertion order, so a re-added id goes last.
toggleId(ids, id) ==
    IF \E n \in DOMAIN ids : ids[n] = id
    THEN SelectSeq(ids, LAMBDA i : i # id)
    ELSE Append(ids, id)

\* A click on the check box of an offered group.
Toggle(id) ==
    /\ steps < stepLimit
    /\ steps' = steps + 1
    /\ showGenModal
    /\ id \in OfferedIds
    /\ selectedIds' = toggleId(selectedIds, id)
    /\ UNCHANGED << tileGroups, showGenModal >>
    /\ DialogRestUnchanged

\* Cancel: onClose; the dialog is unmounted and its state dropped.
CloseDialog ==
    /\ steps < stepLimit
    /\ steps' = steps + 1
    /\ showGenModal
    /\ showGenModal' = FALSE
    /\ selectedIds' = << >>
    /\ UNCHANGED tileGroups
    /\ DialogRestUnchanged

\* selectedIds.forEach(id => { if (tileGroups[id]) filteredGroups[id] = tileGroups[id] })
FilteredGroups(groups, ids) ==
    [n \in DOMAIN ids |->
        groups[CHOOSE k \in DOMAIN groups : groups[k].id = ids[n]]]

\* Generate Level: handleGenerate calls handleFinalGenerate(Array.from(selectedIds));
\* the observer records the groups handed to generateProceduralLevel.
Generate(draws) ==
    /\ steps < stepLimit
    /\ steps' = steps + 1
    /\ showGenModal
    /\ LET ids == SelectSeq(selectedIds, LAMBDA i : i \in RegistryIds)
           filteredGroups == FilteredGroups(tileGroups, ids)
       IN  /\ Commit(saveCheckpoint(Hist),
                     generateProceduralLevel(mapSize.width, mapSize.height,
                                             filteredGroups, draws))
           /\ Observe("handleGenerate", << filteredGroups >>,
                      << "saveCheckpoint", "setLayers" >>)
    /\ activeLayerIndex' = 0
    /\ showGenModal' = FALSE
    /\ selectedIds' = << >>
    /\ UNCHANGED << mapSize, currentTool, isFlipped, paletteSelection, customBrush,
                    selection, clipboard, isMouseDown, isPanning, isSpacePressed,
                    lastPaintedTiles, selectionStart, stroke, stepLimit,
                    activeTileGroup, expansion, level, fillRun, tileGroups >>

NextDialog ==
    \/ \E id \in {"grass", "flower", "cloud", "bush"}, allow \in BOOLEAN : SaveGroup(id, allow)
    \/ OpenDialog
    \/ \E id \in {"grass", "flower", "cloud", "bush"} : Toggle(id)
    \/ CloseDialog
    \/ \E draws \in ConstantStreams : Generate(draws)

SpecDialog == InitDialog /\ [][NextDialog]_vars

\* The groups handed to generateProceduralLevel by the last Generate.
HandedGroups == obs.input[1]

\* C35: a TileGroup whose allowInGeneration flag is false is never handed to
\* generateProceduralLevel: after every sequence of saving flags, opening the
\* dialog, toggling the offered check boxes and pressing Generate, every group
\* handed to the generator has allowInGeneration different from false.
C35_OnlyAllowedGroupsGenerated ==
    obs.handler = "handleGenerate" =>
        \A n \in DOMAIN HandedGroups : HandedGroups[n].allowInGeneration # Some(FALSE)

\* The dialog offers no check box for a group whose flag is false, and none
\* for a terrain decoration.
DialogOffersAllowedOnly ==
    showGenModal =>
        \A n \in DOMAIN tileGroups :
            tileGroups[n].id \in OfferedIds =>
                /\ tileGroups[n].allowInGeneration # Some(FALSE)
                /\ tileGroups[n].role # "terrain-decoration"

(***************************************************************************)
(* Loading a map file (SpecLoad).  A document is what JSON.parse makes of  *)
(* the file's text: it throws, or it yields a value.                       *)
(***************************************************************************)
MaxLoadSteps == 3

\* JSON values as far as handleLoadMap looks at them: the type, the items of
\* an array, and the layers, mapSize and tileGroups members of an object (None
\* when the member is missing).
JsonScalar(type) ==
    [type |-> type, items |-> << >>, layers |-> None, mapSize |-> None, tileGroups |-> None]

JsonArray(items) ==
    [type |-> "array", items |-> items, layers |-> None, mapSize |-> None,
     tileGroups |-> None]

JsonObject(lay, size, groups) ==
    [type |-> "object", items |-> << >>, layers |-> lay, mapSize |-> size,
     tileGroups |-> groups]

\* The layers of a saved map: one layer with one tile.
SavedLayers ==
    << [id |-> "ground", name |-> "Ground", visible |-> TRUE, opacity |-> 100,
        data |-> Put(EmptyData, << 0, 0 >>, TileA)] >>

SavedMapSize == [width |-> MapWidth + 1, height |-> MapHeight + 1]

Unparsable == [parses |-> FALSE, value |-> JsonScalar("null")]

Parsed(value) == [parses |-> TRUE, value |-> value]

\* The files loaded: text that is not JSON; null, a number, a string, an
\* empty object, an object whose layers member is a number; a project file;
\* a project file without mapSize; a legacy file (an array of layers).
LoadDocuments ==
    { Unparsable,
      Parsed(JsonScalar("null")),
      Parsed(JsonScalar("number")),
      Parsed(JsonScalar("string")),
      Parsed(JsonObject(None, None, None)),
      Parsed(JsonObject(Some(JsonScalar("number")), Some(SavedMapSize), None)),
      Parsed(JsonObject(Some(JsonArray(SavedLayers)), Some(SavedMapSize), None)),
      Parsed(JsonObject(Some(JsonArray(SavedLayers)), Some(SavedMapSize),
                        Some(INITIAL_TILE_GROUPS))),
      Parsed(JsonObject(Some(JsonArray(SavedLayers)), None, None)),
      Parsed(JsonArray(SavedLayers)) }

\* data && Array.isArray(data.layers) && data.mapSize
IsProjectFile(data) ==
    /\ data.type = "object"
    /\ data.layers # None
    /\ data.layers[1].type = "array"
    /\ data.mapSize # None

\* reader.onload of handleLoadMap: what is set and what is called.
handleLoadMap(doc, L, size, groups) ==
    IF ~doc.parses
    THEN [L |-> L, mapSize |-> size, tileGroups |-> groups, ops |-> << "alert" >>]
    ELSE IF IsProjectFile(doc.value)
    THEN [L |-> doc.value.layers[1].items, mapSize |-> doc.value.mapSize[1],
          tileGroups |-> IF doc.value.tileGroups # None THEN doc.value.tileGroups[1]
                         ELSE groups,
          ops |-> << "setLayers", "setMapSize" >>]
    ELSE IF doc.value.type = "array"
    THEN [L |-> doc.value.items, mapSize |-> size, tileGroups |-> groups,
          ops |-> << "setLayers" >>]
    ELSE [L |-> L, mapSize |-> size, tileGroups |-> groups, ops |-> << >>]

\* A file is chosen and read; the observer records the document and the map
\* size before the load.
LoadMap(doc) ==
    /\ steps < stepLimit
    /\ steps' = steps + 1
    /\ LET r == handleLoadMap(doc, store[layers], mapSize, tileGroups)
       IN  /\ Commit(Hist, r.L)
           /\ mapSize' = r.mapSize
           /\ tileGroups' = r.tileGroups
           /\ Observe("handleLoadMap", << doc, mapSize >>, r.ops)
    /\ UNCHANGED << activeLayerIndex, currentTool, isFlipped, paletteSelection,
                    customBrush, selection, clipboard, isMouseDown, isPanning,
                    isSpacePressed, lastPaintedTiles, selectionStart, stroke, stepLimit,
                    activeTileGroup, expansion, level, fillRun, showGenModal,
                    selectedIds >>

InitLoad ==
    /\ store = [a \in {1} |-> INITIAL_LAYERS]
    /\ past = << >>
    /\ future = << >>
    /\ layers = 1
    /\ customBrush = Null
    /\ paletteSelection = InitialPaletteSelection
    /\ mapSize = [width |-> MapWidth, height |-> MapHeight]
    /\ currentTool = "brush"
    /\ stepLimit = MaxLoadSteps
    /\ InitEditor

NextLoad ==
    \/ \E doc \in LoadDocuments : LoadMap(doc)
    \/ \E name \in PromptNames, newId \in Uuids : AddLayer(name, newId)
    \/ \E e \in HistoryKeyDownEvents : KeyDown(e)

SpecLoad == InitLoad /\ [][NextLoad]_vars

\* A document that does not parse, or whose value carries no layer array.
Malformed(doc) ==
    \/ ~doc.parses
    \/ /\ doc.value.type # "array"
       /\ ~(doc.value.layers # None /\ doc.value.layers[1].type = "array")

\* C36: loading a malformed document (text that does not parse, or a parsed
\* value that carries no layer array) reports a load failure to the user and
\* leaves the layers, the map size and both history stacks as they were.
C36_MalformedLoadReported ==
    (obs.handler = "handleLoadMap" /\ Malformed(obs.input[1])) =>
        /\ "alert" \in {obs.ops[n] : n \in DOMAIN obs.ops}
        /\ store[layers] = obs.pre.layers
        /\ mapSize = obs.input[2]
        /\ Deref(store, past) = obs.pre.past
        /\ Deref(store, future) = obs.pre.future

\* What holds of the code: a malformed document changes nothing, and text that
\* does not parse is reported.
MalformedLoadChangesNothing ==
    (obs.handler = "handleLoadMap" /\ Malformed(obs.input[1])) =>
        /\ ~obs.input[1].parses => obs.ops = << "alert" >>
        /\ store[layers] = obs.pre.layers
        /\ mapSize = obs.input[2]
        /\ Deref(store, past) = obs.pre.past
        /\ Deref(store, future) = obs.pre.future

====
